---------------------------- MODULE Spec2Model ----------------------------
(***************************************************************************)
(* Model of the SBOM core of Build-Flow-Labs/blueprint (package sbom):     *)
(* the parser registry, the three manifest parsers, Generator.Generate,    *)
(* calculateStats and the CycloneDX / SPDX document builders, together     *)
(* with the part of the CLI (runSBOMGenerate) that calls them.             *)
(*                                                                         *)
(* A Go string that the code inspects or assembles character by character  *)
(* (file names, manifest text, names, versions, PURLs, licenses) is a      *)
(* sequence of one-character strings; a Go string the code only compares   *)
(* as a whole (formats, ecosystem tags, fixed labels) is a TLA+ string.    *)
(***************************************************************************)
EXTENDS Integers, Sequences, FiniteSets, Bags, TLC

(***************************************************************************)
(* Bounds of the model.                                                    *)
(***************************************************************************)
\* most files in one GeneratorInput.Files mapping
MaxFiles == 2
\* longest dependency list handed directly to calculateStats / the builders
MaxDeps == 3
\* bufio.MaxScanTokenSize (64 * 1024 in the library), scaled down so that an
\* over-long manifest line fits the model
MaxScanTokenSize == 24

Nil == "nil"
EmptyStr == <<>>

(***************************************************************************)
(* package strings / unicode, on sequences of characters                   *)
(***************************************************************************)
\* unicode.IsSpace restricted to the characters of the model's alphabet
IsSpace(c) == c \in {" ", "\t", "\n", "\r"}

IsDigit(c) == c \in {"0", "1", "2", "3", "4", "5", "6", "7", "8", "9"}

LowerLetters ==
    {"a", "b", "c", "d", "e", "f", "g", "h", "i", "j", "k", "l", "m",
     "n", "o", "p", "q", "r", "s", "t", "u", "v", "w", "x", "y", "z"}

UpperLetters ==
    {"A", "B", "C", "D", "E", "F", "G", "H", "I", "J", "K", "L", "M",
     "N", "O", "P", "Q", "R", "S", "T", "U", "V", "W", "X", "Y", "Z"}

\* regexp class \w
IsWord(c) == c \in LowerLetters \/ c \in UpperLetters \/ IsDigit(c) \/ c = "_"

Drop(s, n) == IF n >= Len(s) THEN <<>> ELSE SubSeq(s, n + 1, Len(s))

Take(s, n) == IF n >= Len(s) THEN s ELSE SubSeq(s, 1, n)

HasPrefix(s, p) == Len(p) <= Len(s) /\ SubSeq(s, 1, Len(p)) = p

HasSuffix(s, p) ==
    Len(p) <= Len(s) /\ SubSeq(s, Len(s) - Len(p) + 1, Len(s)) = p

TrimPrefix(s, p) == IF HasPrefix(s, p) THEN Drop(s, Len(p)) ELSE s

\* strings.Index: 0-based index of the first occurrence of sub in s, or -1
Index(s, sub) ==
    LET hits == {i \in 0..(Len(s) - Len(sub)) : SubSeq(s, i + 1, i + Len(sub)) = sub}
    IN  IF hits = {} THEN -1 ELSE CHOOSE i \in hits : \A j \in hits : i <= j

Contains(s, sub) == Index(s, sub) >= 0

RECURSIVE ReplaceAll(_, _, _)
\* strings.ReplaceAll for a non-empty old: non-overlapping, left to right
ReplaceAll(s, old, new) ==
    IF s = <<>> THEN <<>>
    ELSE IF HasPrefix(s, old) THEN new \o ReplaceAll(Drop(s, Len(old)), old, new)
    ELSE <<Head(s)>> \o ReplaceAll(Tail(s), old, new)

\* length of the longest prefix of s whose characters all satisfy the class
RunLen(s, Class(_)) ==
    LET stops == {i \in 1..Len(s) : ~Class(s[i])}
    IN  IF stops = {} THEN Len(s) ELSE (CHOOSE i \in stops : \A j \in stops : i <= j) - 1

TrimLeftSpace(s) == Drop(s, RunLen(s, IsSpace))

Reverse(s) == [i \in 1..Len(s) |-> s[Len(s) + 1 - i]]

TrimSpace(s) == Reverse(TrimLeftSpace(Reverse(TrimLeftSpace(s))))

\* strings.Split(s, sep)[0]
SplitFirst(s, sep) == IF Contains(s, sep) THEN Take(s, Index(s, sep)) ELSE s

ToLowerChar(c) ==
    IF c \in UpperLetters
    THEN CHOOSE l \in LowerLetters :
            \E k \in 1..26 :
                /\ <<"A","B","C","D","E","F","G","H","I","J","K","L","M",
                     "N","O","P","Q","R","S","T","U","V","W","X","Y","Z">>[k] = c
                /\ <<"a","b","c","d","e","f","g","h","i","j","k","l","m",
                     "n","o","p","q","r","s","t","u","v","w","x","y","z">>[k] = l
    ELSE c

ToLower(s) == [i \in 1..Len(s) |-> ToLowerChar(s[i])]

(***************************************************************************)
(* Format and ParseFormat                                                  *)
(***************************************************************************)
FormatCycloneDXJSON == "cyclonedx-json"
FormatCycloneDXXML == "cyclonedx-xml"
FormatSPDXJSON == "spdx-json"

CanonicalFormats == {FormatCycloneDXJSON, FormatCycloneDXXML, FormatSPDXJSON}

\* ParseFormat matching without regard to case
ParseFormatFolded(s) ==
    CASE s \in {"cyclonedx-json", "cyclonedx"} -> [format |-> FormatCycloneDXJSON, err |-> Nil]
      [] s = "cyclonedx-xml" -> [format |-> FormatCycloneDXXML, err |-> Nil]
      [] s \in {"spdx-json", "spdx", "SPDX"} -> [format |-> FormatSPDXJSON, err |-> Nil]
      [] OTHER -> [format |-> "", err |-> "unknown SBOM format"]

\* ParseFormat that hands the alias back as the Format
ParseFormatKeepsAlias(s) ==
    CASE s \in {"cyclonedx-json", "cyclonedx"} -> [format |-> s, err |-> Nil]
      [] s = "cyclonedx-xml" -> [format |-> FormatCycloneDXXML, err |-> Nil]
      [] s \in {"spdx-json", "spdx"} -> [format |-> s, err |-> Nil]
      [] OTHER -> [format |-> "", err |-> "unknown SBOM format"]

\* ParseFormat(s): the pair (Format, error)
ParseFormat(s) ==
    CASE s \in {"cyclonedx-json", "cyclonedx"} -> [format |-> FormatCycloneDXJSON, err |-> Nil]
      [] s = "cyclonedx-xml" -> [format |-> FormatCycloneDXXML, err |-> Nil]
      [] s \in {"spdx-json", "spdx"} -> [format |-> FormatSPDXJSON, err |-> Nil]
      [] OTHER -> [format |-> "", err |-> "unknown SBOM format"]

(***************************************************************************)
(* Parser registry                                                         *)
(***************************************************************************)
\* matchPattern without the path-separator boundary
matchPatternAnySuffix(filename, pattern) ==
    \/ filename = pattern
    \/ HasSuffix(filename, pattern)

matchPattern(filename, pattern) ==
    \/ filename = pattern
    \/ HasSuffix(filename, <<"/">> \o pattern)

GoModFilePatterns == << <<"g","o",".","m","o","d">> >>
PackageJSONFilePatterns == << <<"p","a","c","k","a","g","e",".","j","s","o","n">> >>
RequirementsTxtFilePatterns ==
    << <<"r","e","q","u","i","r","e","m","e","n","t","s",".","t","x","t">>, <<"r","e","q","u","i","r","e","m","e","n","t","s","-","d","e","v",".","t","x","t">>, <<"r","e","q","u","i","r","e","m","e","n","t","s","-","t","e","s","t",".","t","x","t">> >>

FilePatterns(parser) ==
    CASE parser = "go" -> GoModFilePatterns
      [] parser = "npm" -> PackageJSONFilePatterns
      [] parser = "python" -> RequirementsTxtFilePatterns

\* the parsers slice of GetParserForFile, each parser named by its EcosystemType
Parsers == <<"go", "npm", "python">>

\* ParserMatches looking at the parser's first pattern only
ParserMatchesFirstPattern(parser, filename) ==
    matchPattern(filename, FilePatterns(parser)[1])

ParserMatches(parser, filename) ==
    \E k \in 1..Len(FilePatterns(parser)) : matchPattern(filename, FilePatterns(parser)[k])

\* the first parser with a matching pattern, Nil when the loop falls through
GetParserForFile(filename) ==
    LET hits == {i \in 1..Len(Parsers) : ParserMatches(Parsers[i], filename)}
    IN  IF hits = {} THEN Nil
        ELSE Parsers[CHOOSE i \in hits : \A j \in hits : i <= j]


(***************************************************************************)
(* Dependency and manifest content                                         *)
(***************************************************************************)
Dependency(name, version, type, direct, purl) ==
    [Name |-> name, Version |-> version, License |-> EmptyStr,
     PURL |-> purl, Type |-> type, Direct |-> direct]

(***************************************************************************)
(* A manifest's content is its text; `json` is what encoding/json decodes  *)
(* that text into for the packageJSON struct: ok = FALSE when              *)
(* json.Unmarshal returns an error, else the Dependencies and              *)
(* DevDependencies maps (functions from name to version string).           *)
(***************************************************************************)
Content(text, json) == [text |-> text, json |-> json]

\* bufio.Scanner with ScanLines: the tokens up to the first over-long line.
RECURSIVE RawLines(_)
RawLines(text) ==
    IF text = <<>> THEN <<>>
    ELSE LET i == Index(text, <<"\n">>)
         IN  IF i = -1 THEN <<text>>
             ELSE <<Take(text, i)>> \o RawLines(Drop(text, i + 1))

\* dropCR of bufio.ScanLines
DropCR(line) ==
    IF line # <<>> /\ line[Len(line)] = "\r" THEN Take(line, Len(line) - 1) ELSE line

TooLong(raw) == Len(raw) >= MaxScanTokenSize

\* scanner.Scan()/scanner.Text() until Scan returns false, and scanner.Err()
Scan(text) ==
    LET raw == RawLines(text)
        bad == {i \in 1..Len(raw) : TooLong(raw[i])}
        n   == IF bad = {} THEN Len(raw)
               ELSE (CHOOSE i \in bad : \A j \in bad : i <= j) - 1
    IN  [lines |-> [i \in 1..n |-> DropCR(raw[i])],
         err   |-> IF bad = {} THEN Nil ELSE "bufio.Scanner: token too long"]

(***************************************************************************)
(* GoModParser                                                             *)
(***************************************************************************)
\* buildGoPURL with the module path as it is
buildGoPURLRawPath(name, version) ==
    <<"p","k","g",":","g","o","l","a","n","g","/">> \o name \o <<"@">> \o version

buildGoPURL(name, version) ==
    <<"p","k","g",":","g","o","l","a","n","g","/">> \o ReplaceAll(name, <<"/">>, <<"%","2","F">>) \o <<"@">> \o version

NonSpace(c) == ~IsSpace(c)
DigitOrDot(c) == IsDigit(c) \/ c = "."
WordOrDot(c) == IsWord(c) \/ c = "."

\* moduleRegex ^module\s+(\S+)
moduleRegexMatch(s) ==
    /\ HasPrefix(s, <<"m","o","d","u","l","e">>)
    /\ LET rest == Drop(s, 6)
           ws == RunLen(rest, IsSpace)
       IN  ws >= 1 /\ RunLen(Drop(rest, ws), NonSpace) >= 1

\* requireRegex ^\s*(\S+)\s+(v[\d.]+(?:-[\w.]+)?) : FindStringSubmatch,
\* ok = FALSE when there is no match (nil), else the two groups
requireRegexFind(s) ==
    LET s1 == TrimLeftSpace(s)
        nameLen == RunLen(s1, NonSpace)
        rest == Drop(s1, nameLen)
        ws == RunLen(rest, IsSpace)
        r2 == Drop(rest, ws)
        numLen == IF r2 = <<>> THEN 0 ELSE RunLen(Tail(r2), DigitOrDot)
        r3 == Drop(r2, 1 + numLen)
        preLen == IF r3 # <<>> /\ r3[1] = "-" THEN RunLen(Tail(r3), WordOrDot) ELSE 0
        verLen == 1 + numLen + (IF preLen >= 1 THEN 1 + preLen ELSE 0)
    IN  IF nameLen >= 1 /\ ws >= 1 /\ r2 # <<>> /\ r2[1] = "v" /\ numLen >= 1
        THEN [ok |-> TRUE, name |-> Take(s1, nameLen), version |-> Take(r2, verLen)]
        ELSE [ok |-> FALSE, name |-> EmptyStr, version |-> EmptyStr]

\* indirectRegex that takes every // comment for an indirect marker
indirectRegexMatchAnyComment(s) ==
    \E i \in 1..Len(s) : HasPrefix(Drop(s, i - 1), <<"/","/">>)

\* indirectRegex //\s*indirect : MatchString (unanchored)
indirectRegexMatch(s) ==
    \E i \in 1..Len(s) :
        /\ HasPrefix(Drop(s, i - 1), <<"/","/">>)
        /\ HasPrefix(TrimLeftSpace(Drop(s, i + 1)), <<"i","n","d","i","r","e","c","t">>)

\* GoModLine that stays inside the require block after its closing line
GoModLineStaysInBlock(st, line) ==
    LET trimmed == TrimSpace(line)
        single == HasPrefix(trimmed, <<"r","e","q","u","i","r","e"," ">>) /\ ~Contains(trimmed, <<"(">>)
        t2 == IF single THEN TrimPrefix(trimmed, <<"r","e","q","u","i","r","e"," ">>) ELSE trimmed
        m == requireRegexFind(t2)
    IN  IF trimmed = <<>> \/ HasPrefix(trimmed, <<"/","/">>) THEN st
        ELSE IF moduleRegexMatch(trimmed) THEN st
        ELSE IF HasPrefix(trimmed, <<"r","e","q","u","i","r","e"," ","(">>) \/ trimmed = <<"r","e","q","u","i","r","e","(">>
             THEN [st EXCEPT !.inRequireBlock = TRUE]
        ELSE IF trimmed = <<")">> /\ st.inRequireBlock
             THEN st
        ELSE IF (st.inRequireBlock \/ HasPrefix(line, <<"r","e","q","u","i","r","e"," ">>)) /\ m.ok
             THEN [st EXCEPT !.deps =
                     Append(@, Dependency(m.name, m.version, "go",
                                          ~indirectRegexMatch(line),
                                          buildGoPURL(m.name, m.version)))]
        ELSE st

\* one iteration of the scan loop of GoModParser.Parse
GoModLine(st, line) ==
    LET trimmed == TrimSpace(line)
        single == HasPrefix(trimmed, <<"r","e","q","u","i","r","e"," ">>) /\ ~Contains(trimmed, <<"(">>)
        t2 == IF single THEN TrimPrefix(trimmed, <<"r","e","q","u","i","r","e"," ">>) ELSE trimmed
        m == requireRegexFind(t2)
    IN  IF trimmed = <<>> \/ HasPrefix(trimmed, <<"/","/">>) THEN st
        ELSE IF moduleRegexMatch(trimmed) THEN st
        ELSE IF HasPrefix(trimmed, <<"r","e","q","u","i","r","e"," ","(">>) \/ trimmed = <<"r","e","q","u","i","r","e","(">>
             THEN [st EXCEPT !.inRequireBlock = TRUE]
        ELSE IF trimmed = <<")">> /\ st.inRequireBlock
             THEN [st EXCEPT !.inRequireBlock = FALSE]
        ELSE IF (st.inRequireBlock \/ HasPrefix(line, <<"r","e","q","u","i","r","e"," ">>)) /\ m.ok
             THEN [st EXCEPT !.deps =
                     Append(@, Dependency(m.name, m.version, "go",
                                          ~indirectRegexMatch(line),
                                          buildGoPURL(m.name, m.version)))]
        ELSE st

RECURSIVE GoModScan(_, _)
GoModScan(st, lines) ==
    IF lines = <<>> THEN st ELSE GoModScan(GoModLine(st, Head(lines)), Tail(lines))

\* GoModParser.Parse: (deps, scanner.Err())
GoModParse(content) ==
    LET sc == Scan(content.text)
        st == GoModScan([inRequireBlock |-> FALSE, deps |-> <<>>], sc.lines)
    IN  [deps |-> st.deps, err |-> sc.err]


(***************************************************************************)
(* PackageJSONParser                                                       *)
(***************************************************************************)
\* strings.TrimPrefix applied for each prefix of the slice in turn
RECURSIVE TrimPrefixes(_, _)
TrimPrefixes(version, prefixes) ==
    IF prefixes = <<>> THEN version
    ELSE TrimPrefixes(TrimPrefix(version, Head(prefixes)), Tail(prefixes))

NpmPrefixes == << <<"^">>, <<"~">>, <<">","=">>, <<"<","=">>, <<">">>, <<"<">>, <<"=">> >>

cleanNpmVersion(version) ==
    LET v == TrimPrefixes(TrimSpace(version), NpmPrefixes)
    IN  IF Contains(v, <<".","x">>) THEN ReplaceAll(v, <<".","x">>, <<".","0">>) ELSE v

\* strings.SplitN(name, "/", 2) has two parts exactly when name contains "/",
\* and joining the two parts with "/" gives name back
buildNpmPURL(name, version) ==
    IF HasPrefix(name, <<"@">>) /\ Contains(name, <<"/">>)
    THEN LET i == Index(name, <<"/">>)
         IN  <<"p","k","g",":","n","p","m","/">> \o Take(name, i) \o <<"/">> \o Drop(name, i + 1)
                 \o <<"@">> \o version
    ELSE <<"p","k","g",":","n","p","m","/">> \o name \o <<"@">> \o version

NpmDependency(name, version) ==
    Dependency(name, cleanNpmVersion(version), "npm", TRUE,
               buildNpmPURL(name, cleanNpmVersion(version)))

\* the orders in which a range over a Go map can visit its keys
KeyOrders(m) ==
    {o \in [1..Cardinality(DOMAIN m) -> DOMAIN m] :
        \A i, j \in DOMAIN o : i # j => o[i] # o[j]}

\* PackageJSONParse over the union of the two maps, where a name of both
\* maps is one entry
PackageJSONParseMerged(content) ==
    IF ~content.json.ok
    THEN {[deps |-> <<>>, err |-> "json: cannot unmarshal"]}
    ELSE LET m == content.json.Dependencies @@ content.json.DevDependencies
         IN  {[deps |-> [i \in 1..Len(o) |-> NpmDependency(o[i], m[o[i]])],
               err |-> Nil] : o \in KeyOrders(m)}

\* PackageJSONParser.Parse: the set of (deps, err) it can return, one for
\* each iteration order of the two maps
PackageJSONParse(content) ==
    IF ~content.json.ok
    THEN {[deps |-> <<>>, err |-> "json: cannot unmarshal"]}
    ELSE LET d == content.json.Dependencies
             dd == content.json.DevDependencies
         IN  {[deps |-> [i \in 1..Len(o1) |-> NpmDependency(o1[i], d[o1[i]])]
                        \o [i \in 1..Len(o2) |-> NpmDependency(o2[i], dd[o2[i]])],
               err |-> Nil] : o1 \in KeyOrders(d), o2 \in KeyOrders(dd)}

(***************************************************************************)
(* RequirementsTxtParser                                                   *)
(***************************************************************************)
\* buildPyPIPURL keeping the underscores of the name
buildPyPIPURLKeepUnderscore(name, version) ==
    LET n == ToLower(name)
    IN  IF version # EmptyStr THEN <<"p","k","g",":","p","y","p","i","/">> \o n \o <<"@">> \o version
        ELSE <<"p","k","g",":","p","y","p","i","/">> \o n

buildPyPIPURL(name, version) ==
    LET n == ReplaceAll(ToLower(name), <<"_">>, <<"-">>)
    IN  IF version # EmptyStr THEN <<"p","k","g",":","p","y","p","i","/">> \o n \o <<"@">> \o version
        ELSE <<"p","k","g",":","p","y","p","i","/">> \o n

PkgNameChar(c) == c \in LowerLetters \/ c \in UpperLetters \/ IsDigit(c) \/ c \in {"_", "-"}
NotCloseBracket(c) == c # "]"
OperatorChar(c) == c \in {"=", "<", ">", "!", "~"}

\* pkgRegex ^([a-zA-Z0-9_-]+(?:\[[^\]]+\])?)\s*([=<>!~]+)?\s*([\d.]+(?:\.\*)?)? :
\* FindStringSubmatch, groups 1 and 3.  Every part after the name may match
\* empty, so the greedy match is the first one found; [\d.]+ takes every dot,
\* so the optional \.\* never matches.
pkgRegexFind(s) ==
    LET nameLen == RunLen(s, PkgNameChar)
        r1 == Drop(s, nameLen)
        inner == IF r1 # <<>> /\ r1[1] = "[" THEN RunLen(Tail(r1), NotCloseBracket) ELSE 0
        extras == IF inner >= 1 /\ Len(r1) >= inner + 2 THEN inner + 2 ELSE 0
        r2 == TrimLeftSpace(Drop(r1, extras))
        r3 == TrimLeftSpace(Drop(r2, RunLen(r2, OperatorChar)))
    IN  IF nameLen >= 1
        THEN [ok |-> TRUE, name |-> Take(s, nameLen + extras),
              version |-> Take(r3, RunLen(r3, DigitOrDot))]
        ELSE [ok |-> FALSE, name |-> EmptyStr, version |-> EmptyStr]

\* RequirementsLine keeping the bracketed extras in the name
RequirementsLineKeepExtras(deps, line) ==
    LET trimmed == TrimSpace(line)
        t2 == IF Contains(trimmed, <<";">>)
              THEN TrimSpace(SplitFirst(trimmed, <<";">>)) ELSE trimmed
        m == pkgRegexFind(t2)
    IN  IF trimmed = <<>> \/ HasPrefix(trimmed, <<"#">>) \/ HasPrefix(trimmed, <<"-">>)
        THEN deps
        ELSE IF m.ok
             THEN Append(deps, Dependency(m.name, m.version, "python", TRUE,
                                          buildPyPIPURL(m.name, m.version)))
        ELSE deps

\* one iteration of the scan loop of RequirementsTxtParser.Parse
RequirementsLine(deps, line) ==
    LET trimmed == TrimSpace(line)
        t2 == IF Contains(trimmed, <<";">>)
              THEN TrimSpace(SplitFirst(trimmed, <<";">>)) ELSE trimmed
        m == pkgRegexFind(t2)
        name == IF Contains(m.name, <<"[">>) THEN Take(m.name, Index(m.name, <<"[">>))
                ELSE m.name
    IN  IF trimmed = <<>> \/ HasPrefix(trimmed, <<"#">>) \/ HasPrefix(trimmed, <<"-">>)
        THEN deps
        ELSE IF m.ok
             THEN Append(deps, Dependency(name, m.version, "python", TRUE,
                                          buildPyPIPURL(name, m.version)))
        ELSE deps

RECURSIVE RequirementsScan(_, _)
RequirementsScan(deps, lines) ==
    IF lines = <<>> THEN deps
    ELSE RequirementsScan(RequirementsLine(deps, Head(lines)), Tail(lines))

\* RequirementsTxtParser.Parse: (deps, scanner.Err())
RequirementsTxtParse(content) ==
    LET sc == Scan(content.text)
    IN  [deps |-> RequirementsScan(<<>>, sc.lines), err |-> sc.err]

\* parser.Parse(content) through the DependencyParser interface: the set of
\* results the call can return
Parse(parser, content) ==
    CASE parser = "go" -> {GoModParse(content)}
      [] parser = "npm" -> PackageJSONParse(content)
      [] parser = "python" -> {RequirementsTxtParse(content)}


(***************************************************************************)
(* calculateStats                                                          *)
(***************************************************************************)
\* StatsStep that counts every dependency as one without a license
StatsStepAlwaysWithout(acc, dep) ==
    [stats |->
        [acc.stats EXCEPT
            !.DirectDependencies = IF dep.Direct THEN @ + 1 ELSE @,
            !.WithLicense = IF dep.License # EmptyStr THEN @ + 1 ELSE @,
            !.WithoutLicense = @ + 1],
     eco |-> acc.eco \cup {dep.Type}]

\* one iteration of the loop over deps; eco is the ecosystems map's key set
StatsStep(acc, dep) ==
    [stats |->
        [acc.stats EXCEPT
            !.DirectDependencies = IF dep.Direct THEN @ + 1 ELSE @,
            !.WithLicense = IF dep.License # EmptyStr THEN @ + 1 ELSE @,
            !.WithoutLicense = IF dep.License # EmptyStr THEN @ ELSE @ + 1],
     eco |-> acc.eco \cup {dep.Type}]

RECURSIVE StatsLoop(_, _)
StatsLoop(acc, deps) ==
    IF deps = <<>> THEN acc ELSE StatsLoop(StatsStep(acc, Head(deps)), Tail(deps))

\* calculateStats counting one ecosystem per dependency instead of per Type
calculateStatsPerDep(deps) ==
    LET acc == StatsLoop([stats |-> [TotalDependencies |-> Len(deps),
                                     DirectDependencies |-> 0,
                                     WithLicense |-> 0,
                                     WithoutLicense |-> 0,
                                     Ecosystems |-> 0],
                          eco |-> {}], deps)
    IN  [acc.stats EXCEPT !.Ecosystems = Len(deps)]

\* calculateStats whose DirectDependencies counts only the direct
\* dependencies ahead of the first transitive one
calculateStatsLeadingDirect(deps) ==
    LET acc == StatsLoop([stats |-> [TotalDependencies |-> Len(deps),
                                     DirectDependencies |-> 0,
                                     WithLicense |-> 0,
                                     WithoutLicense |-> 0,
                                     Ecosystems |-> 0],
                          eco |-> {}], deps)
        lead == {n \in 0..Len(deps) : \A i \in 1..n : deps[i].Direct}
    IN  [acc.stats EXCEPT !.Ecosystems = Cardinality(acc.eco),
                          !.DirectDependencies = Cardinality(lead) - 1]

calculateStats(deps) ==
    LET acc == StatsLoop([stats |-> [TotalDependencies |-> Len(deps),
                                     DirectDependencies |-> 0,
                                     WithLicense |-> 0,
                                     WithoutLicense |-> 0,
                                     Ecosystems |-> 0],
                          eco |-> {}], deps)
    IN  [acc.stats EXCEPT !.Ecosystems = Cardinality(acc.eco)]

(***************************************************************************)
(* fmt and serialization helpers                                           *)
(***************************************************************************)
Digits == <<"0", "1", "2", "3", "4", "5", "6", "7", "8", "9">>

RECURSIVE Itoa(_)
\* fmt's %d of a non-negative int
Itoa(n) == IF n < 10 THEN <<Digits[n + 1]>> ELSE Itoa(n \div 10) \o <<Digits[(n % 10) + 1]>>

\* reflect's isEmptyValue as encoding/json and encoding/xml use it for omitempty
IsEmptyValue(kind, v) ==
    CASE kind = "string" -> v = ""
      [] kind = "int" -> v = 0
      [] kind = "slice" -> v = <<>>
      [] kind = "ptr" -> FALSE

\* a struct field with its json and xml tags.  xml = "" is a field without an
\* xml tag, which encoding/xml writes as an element named after the Go field.
Field(go, kind, json, jsonOmit, xml, xmlAttr, xmlOmit) ==
    [go |-> go, kind |-> kind, json |-> json, jsonOmit |-> jsonOmit,
     xml |-> xml, xmlAttr |-> xmlAttr, xmlOmit |-> xmlOmit]

Pairs(fields, names, v) ==
    [i \in 1..Len(fields) |-> [name |-> names[i], value |-> v[fields[i].go]]]

\* json.MarshalIndent of a struct value: its members in field order
JsonMembers(v, fields) ==
    LET kept == SelectSeq(fields,
                    LAMBDA f : f.json # "-" /\ ~(f.jsonOmit /\ IsEmptyValue(f.kind, v[f.go])))
    IN  Pairs(kept, [i \in 1..Len(kept) |-> kept[i].json], v)

XmlName(f) == IF f.xml = "" THEN f.go ELSE f.xml

\* xml.MarshalIndent of a struct value: the start tag's attributes
XmlAttrs(v, fields) ==
    LET kept == SelectSeq(fields,
                    LAMBDA f : f.xml # "-" /\ f.xmlAttr
                               /\ ~(f.xmlOmit /\ IsEmptyValue(f.kind, v[f.go])))
    IN  Pairs(kept, [i \in 1..Len(kept) |-> XmlName(kept[i])], v)

\* xml.MarshalIndent of a struct value: its child elements
XmlElements(v, fields) ==
    LET kept == SelectSeq(fields,
                    LAMBDA f : f.xml # "-" /\ ~f.xmlAttr
                               /\ ~(f.xmlOmit /\ IsEmptyValue(f.kind, v[f.go])))
    IN  Pairs(kept, [i \in 1..Len(kept) |-> XmlName(kept[i])], v)

\* xml.Header without its trailing newline
XmlHeader == "<?xml version=\"1.0\" encoding=\"UTF-8\"?>"

\* the members, attributes or elements of a rendered document with that name
Named(pairs, name) == SelectSeq(pairs, LAMBDA q : q.name = name)

(***************************************************************************)
(* CycloneDX                                                               *)
(***************************************************************************)
\* struct CDXBom; XMLName (xml:"bom" json:"-") names the root element
CDXBomFields ==
    << Field("XMLNS", "string", "-", FALSE, "xmlns", TRUE, TRUE),
       Field("BomFormat", "string", "bomFormat", FALSE, "", FALSE, FALSE),
       Field("SpecVersion", "string", "specVersion", FALSE, "version", TRUE, FALSE),
       Field("SerialNumber", "string", "serialNumber", FALSE, "serialNumber", TRUE, FALSE),
       Field("Version", "int", "version", FALSE, "version", FALSE, FALSE),
       Field("Metadata", "ptr", "metadata", FALSE, "metadata", FALSE, FALSE),
       Field("Components", "slice", "components", FALSE, "components>component", FALSE, FALSE) >>

RepoName(input) ==
    IF input.OrgName # EmptyStr THEN input.OrgName \o <<"/">> \o input.RepoName
    ELSE input.RepoName

\* CDXComponentOf numbering the bom-refs from the 0-based loop index
CDXComponentZeroBased(dep, i) ==
    [Type |-> "library",
     BomRef |-> <<"p","k","g","-">> \o Itoa(i - 1),
     Name |-> dep.Name,
     Version |-> dep.Version,
     PURL |-> dep.PURL,
     Licenses |-> IF dep.License # EmptyStr
                  THEN <<[License |-> [ID |-> dep.License, Name |-> EmptyStr]]>>
                  ELSE <<>>]

\* the component built from deps[i] in the loop of buildCycloneDXBom
CDXComponentOf(dep, i) ==
    [Type |-> "library",
     BomRef |-> <<"p","k","g","-">> \o Itoa(i),
     Name |-> dep.Name,
     Version |-> dep.Version,
     PURL |-> dep.PURL,
     Licenses |-> IF dep.License # EmptyStr
                  THEN <<[License |-> [ID |-> dep.License, Name |-> EmptyStr]]>>
                  ELSE <<>>]

\* buildCycloneDXBom leaving out the component of the last dependency
buildCycloneDXBomWithoutLast(input, deps, gen, uuid, now) ==
    [XMLNS |-> "",
     BomFormat |-> "CycloneDX",
     SpecVersion |-> "1.4",
     SerialNumber |-> <<"u","r","n",":","u","u","i","d",":">> \o uuid,
     Version |-> 1,
     Metadata |->
        [Timestamp |-> now,
         Tools |-> <<[Vendor |-> "Build-Guard", Name |-> gen.ToolName,
                      Version |-> gen.ToolVersion]>>,
         Component |-> [Type |-> "application", Name |-> RepoName(input),
                        Version |-> input.CommitSHA]],
     Components |-> [i \in 1..(IF deps = <<>> THEN 0 ELSE Len(deps) - 1) |->
                        CDXComponentOf(deps[i], i)]]

\* uuid is the value of uuid.New().String(), now that of time.Now()
buildCycloneDXBom(input, deps, gen, uuid, now) ==
    [XMLNS |-> "",
     BomFormat |-> "CycloneDX",
     SpecVersion |-> "1.4",
     SerialNumber |-> <<"u","r","n",":","u","u","i","d",":">> \o uuid,
     Version |-> 1,
     Metadata |->
        [Timestamp |-> now,
         Tools |-> <<[Vendor |-> "Build-Guard", Name |-> gen.ToolName,
                      Version |-> gen.ToolVersion]>>,
         Component |-> [Type |-> "application", Name |-> RepoName(input),
                        Version |-> input.CommitSHA]],
     Components |-> [i \in 1..Len(deps) |-> CDXComponentOf(deps[i], i)]]

\* json.MarshalIndent does not fail on a CDXBom
generateCycloneDXJSON(input, deps, gen, uuid, now) ==
    LET bom == buildCycloneDXBom(input, deps, gen, uuid, now)
    IN  [content |-> [encoding |-> "json", header |-> "", root |-> "",
                      attrs |-> <<>>, members |-> JsonMembers(bom, CDXBomFields)],
         err |-> Nil]

\* xml.MarshalIndent does not fail on a CDXBom
generateCycloneDXXML(input, deps, gen, uuid, now) ==
    LET bom == [buildCycloneDXBom(input, deps, gen, uuid, now) EXCEPT
                    !.XMLNS = "http://cyclonedx.org/schema/bom/1.4",
                    !.BomFormat = ""]
    IN  [content |-> [encoding |-> "xml", header |-> XmlHeader, root |-> "bom",
                      attrs |-> XmlAttrs(bom, CDXBomFields),
                      members |-> XmlElements(bom, CDXBomFields)],
         err |-> Nil]

(***************************************************************************)
(* SPDX                                                                    *)
(***************************************************************************)
\* struct SPDXDocument (it has json tags only)
SPDXDocumentFields ==
    << Field("SPDXID", "string", "SPDXID", FALSE, "-", FALSE, FALSE),
       Field("SPDXVersion", "string", "spdxVersion", FALSE, "-", FALSE, FALSE),
       Field("CreationInfo", "ptr", "creationInfo", FALSE, "-", FALSE, FALSE),
       Field("Name", "string", "name", FALSE, "-", FALSE, FALSE),
       Field("DataLicense", "string", "dataLicense", FALSE, "-", FALSE, FALSE),
       Field("DocumentNamespace", "string", "documentNamespace", FALSE, "-", FALSE, FALSE),
       Field("DocumentDescribes", "slice", "documentDescribes", FALSE, "-", FALSE, FALSE),
       Field("Packages", "slice", "packages", FALSE, "-", FALSE, FALSE),
       Field("Relationships", "slice", "relationships", FALSE, "-", FALSE, FALSE),
       Field("ExternalDocumentRefs", "slice", "externalDocumentRefs", TRUE, "-", FALSE, FALSE),
       Field("HasExtractedLicensing", "slice", "hasExtractedLicensingInfo", TRUE, "-", FALSE, FALSE) >>

rootSPDXID == <<"S","P","D","X","R","e","f","-","P","a","c","k","a","g","e","-","r","o","o","t">>
documentSPDXID == <<"S","P","D","X","R","e","f","-","D","O","C","U","M","E","N","T">>
NOASSERTION == <<"N","O","A","S","S","E","R","T","I","O","N">>

SPDXRootPackage(input) ==
    [SPDXID |-> rootSPDXID,
     Name |-> RepoName(input),
     VersionInfo |-> input.CommitSHA,
     DownloadLocation |-> <<"h","t","t","p","s",":","/","/","g","i","t","h","u","b",".","c","o","m","/">> \o RepoName(input),
     FilesAnalyzed |-> FALSE,
     LicenseConcluded |-> NOASSERTION,
     LicenseDeclared |-> EmptyStr,
     CopyrightText |-> NOASSERTION,
     ExternalRefs |-> <<>>,
     PrimaryPackagePurpose |-> "APPLICATION",
     Checksums |-> <<>>]

\* the package built from deps[i] in the loop of buildSPDXDocument; the
\* SHA-256 digest is kept as the text it is taken over
SPDXPackageOf(dep, i) ==
    [SPDXID |-> <<"S","P","D","X","R","e","f","-","P","a","c","k","a","g","e","-">> \o Itoa(i),
     Name |-> dep.Name,
     VersionInfo |-> dep.Version,
     DownloadLocation |-> NOASSERTION,
     FilesAnalyzed |-> FALSE,
     LicenseConcluded |-> IF dep.License # EmptyStr THEN dep.License ELSE NOASSERTION,
     LicenseDeclared |-> IF dep.License # EmptyStr THEN dep.License ELSE EmptyStr,
     CopyrightText |-> NOASSERTION,
     ExternalRefs |-> IF dep.PURL # EmptyStr
                      THEN <<[ReferenceCategory |-> "PACKAGE-MANAGER",
                              ReferenceType |-> "purl",
                              ReferenceLocator |-> dep.PURL]>>
                      ELSE <<>>,
     PrimaryPackagePurpose |-> "",
     Checksums |-> <<[Algorithm |-> "SHA256",
                      ChecksumValue |-> [sha256 |-> dep.Name \o <<"@">> \o dep.Version]]>>]

\* DependsOn that numbers the packages from zero
DependsOnZeroBased(i) ==
    [SPDXElementID |-> rootSPDXID, RelationshipType |-> "DEPENDS_ON",
     RelatedSPDXElement |-> <<"S","P","D","X","R","e","f","-","P","a","c","k","a","g","e","-">> \o Itoa(i - 1)]

DependsOn(i) ==
    [SPDXElementID |-> rootSPDXID, RelationshipType |-> "DEPENDS_ON",
     RelatedSPDXElement |-> <<"S","P","D","X","R","e","f","-","P","a","c","k","a","g","e","-">> \o Itoa(i)]

\* SPDXStep relating the root to every dependency, direct or not
SPDXStepAllDependsOn(acc, dep, i) ==
    [packages |-> Append(acc.packages, SPDXPackageOf(dep, i)),
     relationships |-> Append(acc.relationships, DependsOn(i))]

\* one iteration of the loop over deps: the package is appended, and a
\* DEPENDS_ON relationship when dep.Direct
SPDXStep(acc, dep, i) ==
    [packages |-> Append(acc.packages, SPDXPackageOf(dep, i)),
     relationships |-> IF dep.Direct THEN Append(acc.relationships, DependsOn(i))
                       ELSE acc.relationships]

RECURSIVE SPDXLoop(_, _, _)
SPDXLoop(acc, deps, i) ==
    IF i > Len(deps) THEN acc ELSE SPDXLoop(SPDXStep(acc, deps[i], i), deps, i + 1)

buildSPDXDocument(input, deps, gen, uuid, now) ==
    LET acc == SPDXLoop([packages |-> <<SPDXRootPackage(input)>>,
                         relationships |->
                            <<[SPDXElementID |-> documentSPDXID,
                               RelationshipType |-> "DESCRIBES",
                               RelatedSPDXElement |-> rootSPDXID]>>],
                        deps, 1)
    IN  [SPDXID |-> documentSPDXID,
         SPDXVersion |-> "SPDX-2.3",
         Name |-> <<"S","B","O","M"," ","f","o","r"," ">> \o RepoName(input),
         DataLicense |-> "CC0-1.0",
         DocumentNamespace |->
            <<"h","t","t","p","s",":","/","/","b","u","i","l","d","g","u","a","r","d",".","i","o","/","s","p","d","x","/">>
                \o ReplaceAll(RepoName(input), <<"/">>, <<"-">>) \o <<"/">> \o uuid,
         CreationInfo |->
            [Created |-> now,
             Creators |-> << <<"Tool: ", gen.ToolName, "-", gen.ToolVersion>>,
                             <<"Organization: Build-Guard">> >>,
             LicenseListVersion |-> "3.19"],
         DocumentDescribes |-> <<rootSPDXID>>,
         Packages |-> acc.packages,
         Relationships |-> acc.relationships,
         ExternalDocumentRefs |-> <<>>,
         HasExtractedLicensing |-> <<>>]

\* json.MarshalIndent does not fail on an SPDXDocument
generateSPDXJSON(input, deps, gen, uuid, now) ==
    LET doc == buildSPDXDocument(input, deps, gen, uuid, now)
    IN  [content |-> [encoding |-> "json", header |-> "", root |-> "",
                      attrs |-> <<>>, members |-> JsonMembers(doc, SPDXDocumentFields)],
         err |-> Nil]


(***************************************************************************)
(* Inputs of the model                                                     *)
(***************************************************************************)
NotJSON == [ok |-> FALSE, Dependencies |-> <<>>, DevDependencies |-> <<>>]
JSONObject(deps, devDeps) == [ok |-> TRUE, Dependencies |-> deps, DevDependencies |-> devDeps]

\* a comment line of MaxScanTokenSize + 10 characters, which the scanner rejects
RECURSIVE Repeat(_, _)
Repeat(c, n) == IF n = 0 THEN <<>> ELSE <<c>> \o Repeat(c, n - 1)
LongLine == <<"/","/"," ">> \o Repeat("x", MaxScanTokenSize + 7)

GoModManifests ==
    { Content(<<"m","o","d","u","l","e"," ","m","\n","\n","g","o"," ","1",".","2","1","\n","\n","r","e","q","u","i","r","e"," ","a","/","b"," ","v","1",".","2","\n">>, NotJSON),
      Content(<<"m","o","d","u","l","e"," ","m","\n","r","e","q","u","i","r","e"," ","(","\n","\t","c"," ","v","1",".","0"," ","/","/"," ","i","n","d","i","r","e","c","t","\n","\t","d"," ","v","2",".","1","\n",")","\n">>, NotJSON),
      Content(<<"r","e","q","u","i","r","e"," ","a","/","b"," ","v","1",".","2","\n">> \o LongLine \o <<"\n","r","e","q","u","i","r","e"," ","e"," ","v","3",".","0","\n">>, NotJSON) }

SubGoModManifests == { Content(<<"r","e","q","u","i","r","e"," ","a","/","b"," ","v","1",".","2","\n">>, NotJSON) }

PackageJSONManifests ==
    { Content(<<"{","\"","d","e","p","e","n","d","e","n","c","i","e","s","\"",":","{","\"","x","\"",":","\"","^","4",".","1","\"","}",",","\"","d","e","v","D","e","p","e","n","d","e","n","c","i","e","s","\"",":","{","\"","y","\"",":","\"","~","2",".","0","\"","}","}">>,
              JSONObject(<<"x">> :> <<"^","4",".","1">>, <<"y">> :> <<"~","2",".","0">>)),
      Content(<<"{","\"","d","e","p","e","n","d","e","n","c","i","e","s","\"",":","{","\"","x","\"",":","\"","1",".","x","\"",",","\"","@","t","/","n","\"",":","\"","3",".","0","\"","}","}">>,
              JSONObject((<<"x">> :> <<"1",".","x">>) @@ (<<"@","t","/","n">> :> <<"3",".","0">>), <<>>)),
      Content(<<"{","\"","d","e","p","e","n","d","e","n","c","i","e","s","\"",":","{","\"","x","\"",":">>, NotJSON) }

RequirementsManifests ==
    { Content(<<"D","j","a","n","g","o","=","=","4",".","2","\n","#"," ","p","i","n","n","e","d","\n","f","l","a","s","k","[","a","s","y","n","c","]",">","=","2",".","0","\n">>, NotJSON),
      Content(<<"-","r"," ","b","a","s","e",".","t","x","t","\n","n","u","m","p","y","\n">> \o LongLine \o <<"\n","r","e","q","u","e","s","t","s","\n">>, NotJSON) }

GoSumTexts == { Content(<<"a","/","b"," ","v","1",".","2"," ","h","1",":","a","b","c","=","\n">>, NotJSON) }

\* var dependencyFiles of the CLI, the names the model uses
dependencyFiles == { <<"g","o",".","m","o","d">>, <<"g","o",".","s","u","m">>, <<"p","a","c","k","a","g","e",".","j","s","o","n">>, <<"r","e","q","u","i","r","e","m","e","n","t","s",".","t","x","t">> }

FileNames == dependencyFiles \cup { <<"s","u","b","/","g","o",".","m","o","d">> }

ContentsFor(name) ==
    CASE name = <<"g","o",".","m","o","d">> -> GoModManifests
      [] name = <<"s","u","b","/","g","o",".","m","o","d">> -> SubGoModManifests
      [] name = <<"p","a","c","k","a","g","e",".","j","s","o","n">> -> PackageJSONManifests
      [] name = <<"r","e","q","u","i","r","e","m","e","n","t","s",".","t","x","t">> -> RequirementsManifests
      [] OTHER -> GoSumTexts

\* the Files mappings over the given names, of at most MaxFiles entries
FileMaps(names) ==
    UNION { {f \in [S -> UNION {ContentsFor(n) : n \in S}] :
                \A n \in S : f[n] \in ContentsFor(n)} :
            S \in {T \in SUBSET names : Cardinality(T) <= MaxFiles} }

\* Format values a caller of Generate can pass: Format is a string type
ApiFormats == CanonicalFormats \cup {"cyclonedx", "spdx", ""}

\* values of the --format flag
FlagFormats ==
    {"cyclonedx-json", "cyclonedx", "cyclonedx-xml", "spdx-json", "spdx",
     "SPDX", "unknown", ""}

GeneratorInput(org, repo, files, format, commit) ==
    [OrgName |-> org, RepoName |-> repo, Files |-> files, Format |-> format,
     CommitSHA |-> commit, BranchName |-> EmptyStr]

NoInput == GeneratorInput(EmptyStr, EmptyStr, <<>>, "", EmptyStr)

\* NewGenerator()
NewGenerator == [ToolName |-> "Blueprint", ToolVersion |-> "1.0.0"]

(***************************************************************************)
(* State                                                                   *)
(***************************************************************************)
VARIABLES
    g,          \* the Generator
    pc,         \* "idle", "range" (in the loop over input.Files), "done", "exit"
    caller,     \* "none", "cli" (runSBOMGenerate) or "api" (a direct caller)
    flag,       \* the CLI's --format string and what ParseFormat made of it
    input,      \* the GeneratorInput of the running Generate call
    todo,       \* keys of input.Files the range loop has not visited yet
    allDeps,    \* Generate's allDeps
    parseCalls, \* file names handed to a parser's Parse by the running call
    ret,        \* what Generate returned: sbom (<<>> is nil) and err
    prev,       \* what the caller's previous Generate call on this input returned
    uuids,      \* number of UUIDs uuid.New() has handed out
    clock,      \* the wall clock, in ticks
    unit,       \* a direct call of a package function, as the package tests make
    goroutines  \* the locals of each of the concurrent Generate calls on g

vars == <<g, pc, caller, flag, input, todo, allDeps, parseCalls, ret, prev,
          uuids, clock, unit, goroutines>>

NoFlag == [s |-> "", format |-> "", err |-> Nil]
NoRet == [sbom |-> <<>>, err |-> Nil]
NoUnit == [fn |-> "none"]

\* the goroutines that share the Generator
Goroutines == {1, 2}

\* a goroutine that has not called Generate: given is the GeneratorInput its
\* caller built, input the one Generate holds a pointer to
NotCalled ==
    [pc |-> "idle", given |-> NoInput, input |-> NoInput, todo |-> {},
     allDeps |-> <<>>, ret |-> NoRet]

Init ==
    /\ g = NewGenerator
    /\ pc = "idle"
    /\ caller = "none"
    /\ flag = NoFlag
    /\ input = NoInput
    /\ todo = {}
    /\ allDeps = <<>>
    /\ parseCalls = <<>>
    /\ ret = NoRet
    /\ prev = <<>>
    /\ uuids = 0
    /\ clock = 0
    /\ unit = NoUnit
    /\ goroutines = [p \in Goroutines |-> NotCalled]


(***************************************************************************)
(* Generator.Generate, step by step                                        *)
(***************************************************************************)
\* uuid.New().String(): the n-th UUID handed out (random version-4 UUIDs,
\* taken to be pairwise distinct)
Uuid(n) == <<"u","u","i","d","-">> \o Itoa(n)

\* Aggregate keeping what a failed Parse had collected
AggregateKeepPartial(all, r) == all \o r.deps

\* Aggregate appending a file's dependencies twice
AggregateTwice(all, r) == IF r.err # Nil THEN all ELSE all \o r.deps \o r.deps

\* the body of the range loop for one file's Parse result: allDeps afterwards
Aggregate(all, r) == IF r.err # Nil THEN all ELSE all \o r.deps

\* SwitchFormat refusing an empty dependency list
SwitchFormatRejectEmpty(in, deps, gen, uuid, now) ==
    CASE deps = <<>> -> [content |-> <<>>, err |-> "no dependencies"]
      [] in.Format = FormatCycloneDXJSON -> generateCycloneDXJSON(in, deps, gen, uuid, now)
      [] in.Format = FormatCycloneDXXML -> generateCycloneDXXML(in, deps, gen, uuid, now)
      [] in.Format = FormatSPDXJSON -> generateSPDXJSON(in, deps, gen, uuid, now)
      [] OTHER -> [content |-> <<>>, err |-> "unsupported format"]

\* the switch on input.Format with its default case
SwitchFormat(in, deps, gen, uuid, now) ==
    CASE in.Format = FormatCycloneDXJSON -> generateCycloneDXJSON(in, deps, gen, uuid, now)
      [] in.Format = FormatCycloneDXXML -> generateCycloneDXXML(in, deps, gen, uuid, now)
      [] in.Format = FormatSPDXJSON -> generateSPDXJSON(in, deps, gen, uuid, now)
      [] OTHER -> [content |-> <<>>, err |-> "unsupported format"]

\* GeneratedSBOM over a list whose first entry a builder has given the
\* NOASSERTION license in place
GeneratedSBOMOfEditedList(in, content, deps, stats, at, gen) ==
    [Format |-> in.Format, Content |-> content,
     Dependencies |-> [i \in DOMAIN deps |->
                        IF i = 1 THEN [deps[i] EXCEPT !.License = NOASSERTION] ELSE deps[i]],
     Stats |-> stats, GeneratedAt |-> at,
     ToolName |-> gen.ToolName, ToolVersion |-> gen.ToolVersion]

\* the GeneratedSBOM literal Generate returns
GeneratedSBOM(in, content, deps, stats, at, gen) ==
    [Format |-> in.Format, Content |-> content, Dependencies |-> deps,
     Stats |-> stats, GeneratedAt |-> at,
     ToolName |-> gen.ToolName, ToolVersion |-> gen.ToolVersion]

\* entry of Generate: allDeps is nil and the range over input.Files starts
Enter(in) ==
    /\ input' = in
    /\ todo' = DOMAIN in.Files
    /\ allDeps' = <<>>
    /\ parseCalls' = <<>>
    /\ ret' = NoRet
    /\ pc' = "range"

\* a caller of the package calls g.Generate(in)
CallGenerate(in) ==
    /\ pc = "idle"
    /\ caller' = "api"
    /\ Enter(in)
    /\ UNCHANGED <<g, goroutines, flag, prev, uuids, clock, unit>>

\* runSBOMGenerate up to its call of Generate: ParseFormat, then the scan of
\* the directory (files is what scanLocalDirectory / fetchGitHubFiles return)
RunSBOMGenerate(s, files, org, repo) ==
    /\ pc = "idle"
    /\ caller' = "cli"
    /\ LET p == ParseFormat(s)
       IN  /\ flag' = [s |-> s, format |-> p.format, err |-> p.err]
           /\ IF p.err # Nil \/ DOMAIN files = {}
              THEN /\ pc' = "exit"
                   /\ UNCHANGED <<input, todo, allDeps, parseCalls, ret>>
              ELSE Enter(GeneratorInput(org, repo, files, p.format, EmptyStr))
    /\ UNCHANGED <<g, goroutines, prev, uuids, clock, unit>>

\* one iteration of `for filename, content := range input.Files`; a Go map
\* is ranged over in an unspecified order
RangeFile(filename) ==
    /\ pc = "range"
    /\ filename \in todo
    /\ todo' = todo \ {filename}
    /\ LET parser == GetParserForFile(filename)
       IN  IF parser = Nil
           THEN UNCHANGED <<allDeps, parseCalls>>
           ELSE \E r \in Parse(parser, input.Files[filename]) :
                    /\ parseCalls' = Append(parseCalls, filename)
                    /\ allDeps' = Aggregate(allDeps, r)
    /\ UNCHANGED <<g, goroutines, pc, caller, flag, input, ret, prev, uuids, clock, unit>>

\* after the loop: calculateStats, the switch on the format, and the return.
\* A generate function draws one UUID and reads the clock, which may have
\* advanced since it was last read; the GeneratedSBOM literal reads it again
\* within the same tick.
Return ==
    /\ pc = "range"
    /\ todo = {}
    /\ pc' = "done"
    /\ LET stats == calculateStats(allDeps)
       IN  IF input.Format \notin CanonicalFormats
           THEN /\ ret' = [sbom |-> <<>>,
                           err |-> SwitchFormat(input, allDeps, g, Uuid(0), clock).err]
                /\ UNCHANGED <<uuids, clock>>
           ELSE \E dt \in {0, 1} :
                    LET now == clock + dt
                        out == SwitchFormat(input, allDeps, g, Uuid(uuids + 1), now)
                    IN  /\ uuids' = uuids + 1
                        /\ clock' = now
                        /\ ret' = IF out.err # Nil
                                  THEN [sbom |-> <<>>, err |-> out.err]
                                  ELSE [sbom |-> <<GeneratedSBOM(input, out.content, allDeps,
                                                                 stats, now, g)>>,
                                        err |-> Nil]
    /\ UNCHANGED <<g, goroutines, caller, flag, input, todo, allDeps, parseCalls, prev, unit>>

\* the caller calls g.Generate a second time with the same input
GenerateAgain ==
    /\ pc = "done"
    /\ caller = "api"
    /\ prev = <<>>
    /\ prev' = <<ret>>
    /\ Enter(input)
    /\ UNCHANGED <<g, goroutines, caller, flag, uuids, clock, unit>>

ApiInputs ==
    {GeneratorInput(<<"o","r","g">>, <<"r","e","p","o">>, files, format, <<"c","0","f","f","e","e">>) :
        files \in FileMaps(FileNames), format \in ApiFormats}

Next ==
    \/ pc = "idle" /\ unit = NoUnit /\ \E in \in ApiInputs : CallGenerate(in)
    \/ pc = "idle" /\ unit = NoUnit
            /\ \E s \in FlagFormats, files \in FileMaps(dependencyFiles) :
                    RunSBOMGenerate(s, files, <<"l","o","c","a","l">>, <<"r","e","p","o">>)
    \/ \E filename \in todo : RangeFile(filename)
    \/ Return
    \/ GenerateAgain

Spec == Init /\ [][Next]_vars


(***************************************************************************)
(* Direct calls of calculateStats and of the document builders, the way    *)
(* the package's tests call them, on dependency lists of any shape          *)
(* (parsers never set License; a caller of the builders may).              *)
(***************************************************************************)
Dep(name, version, license, purl, type, direct) ==
    [Name |-> name, Version |-> version, License |-> license,
     PURL |-> purl, Type |-> type, Direct |-> direct]

UnitDeps ==
    { Dep(<<"a">>, <<"1",".","0">>, <<"M","I","T">>, <<"p","k","g",":","g","o","l","a","n","g","/","a","@","1",".","0">>, "go", TRUE),
      Dep(<<"a">>, <<"1",".","0">>, EmptyStr, EmptyStr, "go", FALSE),
      Dep(<<"b">>, <<"2",".","0">>, EmptyStr, <<"p","k","g",":","n","p","m","/","b","@","2",".","0">>, "npm", TRUE),
      Dep(<<"b">>, <<"2",".","0">>, <<"M","I","T">>, <<"p","k","g",":","n","p","m","/","b","@","2",".","0">>, "npm", FALSE),
      Dep(<<"c">>, EmptyStr, <<"A","p","a","c","h","e","-","2",".","0">>, EmptyStr, "python", TRUE),
      Dep(<<"c">>, <<"3",".","0">>, EmptyStr, <<"p","k","g",":","p","y","p","i","/","c","@","3",".","0">>, "python", FALSE) }

\* the dependency lists of at most MaxDeps entries
UnitLists == UNION {[1..n -> UnitDeps] : n \in 0..MaxDeps}

UnitInputs ==
    {GeneratorInput(org, <<"r","e","p","o">>, <<>>, "", <<"c","0","f","f","e","e">>) : org \in {EmptyStr, <<"o","r","g">>}}

UnitCall(fn, in, deps, out) ==
    /\ unit = NoUnit
    /\ pc = "idle"
    /\ unit' = [fn |-> fn, input |-> in, deps |-> deps, out |-> out]
    /\ uuids' = IF fn = "calculateStats" THEN uuids ELSE uuids + 1
    /\ UNCHANGED <<g, goroutines, pc, caller, flag, input, todo, allDeps, parseCalls, ret, prev, clock>>

CallCalculateStats(deps) ==
    UnitCall("calculateStats", NoInput, deps, calculateStats(deps))

CallBuildCycloneDXBom(in, deps) ==
    UnitCall("buildCycloneDXBom", in, deps,
             buildCycloneDXBom(in, deps, g, Uuid(uuids + 1), clock))

CallBuildSPDXDocument(in, deps) ==
    UnitCall("buildSPDXDocument", in, deps,
             buildSPDXDocument(in, deps, g, Uuid(uuids + 1), clock))

CallGenerateCycloneDXJSON(in, deps) ==
    UnitCall("generateCycloneDXJSON", in, deps,
             generateCycloneDXJSON(in, deps, g, Uuid(uuids + 1), clock))

CallGenerateCycloneDXXML(in, deps) ==
    UnitCall("generateCycloneDXXML", in, deps,
             generateCycloneDXXML(in, deps, g, Uuid(uuids + 1), clock))

CallGenerateSPDXJSON(in, deps) ==
    UnitCall("generateSPDXJSON", in, deps,
             generateSPDXJSON(in, deps, g, Uuid(uuids + 1), clock))

UnitNext ==
    \/ unit = NoUnit /\ \E deps \in UnitLists : CallCalculateStats(deps)
    \/ unit = NoUnit /\ \E in \in UnitInputs, deps \in UnitLists :
                            CallBuildCycloneDXBom(in, deps)
    \/ unit = NoUnit /\ \E in \in UnitInputs, deps \in UnitLists :
                            CallBuildSPDXDocument(in, deps)
    \/ unit = NoUnit /\ \E in \in UnitInputs, deps \in UnitLists :
                            CallGenerateCycloneDXJSON(in, deps)
    \/ unit = NoUnit /\ \E in \in UnitInputs, deps \in UnitLists :
                            CallGenerateCycloneDXXML(in, deps)
    \/ unit = NoUnit /\ \E in \in UnitInputs, deps \in UnitLists :
                            CallGenerateSPDXJSON(in, deps)

UnitSpec == Init /\ [][UnitNext]_vars


(***************************************************************************)
(* Properties                                                              *)
(***************************************************************************)
Range(s) == {s[i] : i \in DOMAIN s}

SeqToBag(s) == [x \in Range(s) |-> Cardinality({i \in DOMAIN s : s[i] = x})]

RECURSIVE BagSum(_)
\* the sum of a set of (file, bag) pairs' bags
BagSum(S) ==
    IF S = {} THEN EmptyBag
    ELSE LET x == CHOOSE y \in S : TRUE IN x[2] (+) BagSum(S \ {x})

Finished == pc = "done"
Succeeded == Finished /\ ret.sbom # <<>>
Returned == ret.sbom[1]

\* what Parse can return for each file name and content of the model's inputs
Parsed ==
    [f \in {n \in FileNames : GetParserForFile(n) # Nil} |->
        [c \in ContentsFor(f) |-> Parse(GetParserForFile(f), c)]]

\* the files of a mapping that resolve to a parser whose Parse returns no error
Survivors(files) ==
    {f \in DOMAIN files :
        /\ f \in DOMAIN Parsed
        /\ \A r \in Parsed[f][files[f]] : r.err = Nil}

\* C1: a format outside the three canonical values ends the request with an
\* error, with no Parse call made first and nothing returned
C1_FatalFormatBeforeParsing ==
    /\ (caller = "cli" /\ flag.err # Nil) =>
            pc = "exit" /\ parseCalls = <<>> /\ ret = NoRet
    /\ (caller = "api" /\ input.Format \notin CanonicalFormats) =>
            /\ parseCalls = <<>>
            /\ Finished => (ret.sbom = <<>> /\ ret.err # Nil)

\* C2: files without a parser or with a failing Parse contribute nothing, and
\* the result holds exactly the dependencies of the other files
C2_SkippedFilesContributeNothing ==
    (Finished /\ input.Format \in CanonicalFormats) =>
        /\ Succeeded /\ ret.err = Nil
        /\ SeqToBag(Returned.Dependencies) =
              BagSum({<<f, SeqToBag((CHOOSE r \in Parsed[f][input.Files[f]] : TRUE).deps)>> :
                        f \in Survivors(input.Files)})

C2_Witness ==
    /\ Succeeded
    /\ Returned.Dependencies # <<>>
    /\ \E f \in DOMAIN input.Files \cap DOMAIN Parsed :
            \E r \in Parsed[f][input.Files[f]] : r.err # Nil /\ r.deps # <<>>
    /\ Survivors(input.Files) # {}


\* a rendered document without its time- and random-derived parts: the serial
\* number, the document namespace and the two timestamps
ScrubValue(q) ==
    CASE q.name \in {"serialNumber", "documentNamespace"} -> [q EXCEPT !.value = "*"]
      [] q.name = "metadata" -> [q EXCEPT !.value.Timestamp = 0]
      [] q.name = "creationInfo" -> [q EXCEPT !.value.Created = 0]
      [] OTHER -> q

Scrub(content) ==
    [content EXCEPT !.attrs = [i \in DOMAIN @ |-> ScrubValue(@[i])],
                    !.members = [i \in DOMAIN @ |-> ScrubValue(@[i])]]

SecondCallDone == Finished /\ prev # <<>> /\ Succeeded /\ prev[1].sbom # <<>>

\* C3: two Generate calls on the same input return the same Dependencies list,
\* the same Stats, and documents equal up to timestamp and serial number / UUID
C3_SameInputSameOutput ==
    SecondCallDone =>
        /\ Returned.Dependencies = prev[1].sbom[1].Dependencies
        /\ Returned.Stats = prev[1].sbom[1].Stats
        /\ Scrub(Returned.Content) = Scrub(prev[1].sbom[1].Content)

\* the part of C3 that does hold: the Stats of the two calls agree
C3_SameStats == SecondCallDone => Returned.Stats = prev[1].sbom[1].Stats

\* what the successful Parse calls made so far, in the order they were made,
\* can have returned, concatenated
RECURSIVE Concatenations(_, _)
Concatenations(files, calls) ==
    IF calls = <<>> THEN {<<>>}
    ELSE LET f == calls[Len(calls)]
             last == IF f \in Survivors(files) THEN {r.deps : r \in Parsed[f][files[f]]}
                     ELSE {<<>>}
         IN  {a \o b : a \in Concatenations(files, SubSeq(calls, 1, Len(calls) - 1)),
                       b \in last}

RECURSIVE SumLen(_, _)
SumLen(files, S) ==
    IF S = {} THEN 0
    ELSE LET f == CHOOSE x \in S : TRUE
         IN  Len((CHOOSE r \in Parsed[f][files[f]] : TRUE).deps)
                + SumLen(files, S \ {f})

\* C4: the aggregated list is the concatenation of the successful Parse
\* results, each file parsed once, and the returned list is that list: its
\* length is the sum of the lengths of those results
C4_OnlyParsedDependencies ==
    /\ pc \in {"range", "done"} =>
            /\ allDeps \in Concatenations(input.Files, parseCalls)
            /\ \A i, j \in DOMAIN parseCalls : i # j => parseCalls[i] # parseCalls[j]
    /\ Succeeded =>
            /\ Returned.Dependencies = allDeps
            /\ Len(Returned.Dependencies) = SumLen(input.Files, Survivors(input.Files))

C4_Witness ==
    /\ Succeeded
    /\ Cardinality(Survivors(input.Files)) = 2
    /\ Len(Returned.Dependencies) >= 3

\* C5: ParseFormat accepts exactly the five spellings, case-sensitively
C5_ParseFormatExact ==
    caller = "cli" =>
        /\ flag.s \in {"cyclonedx-json", "cyclonedx"} =>
                flag.format = "cyclonedx-json" /\ flag.err = Nil
        /\ flag.s = "cyclonedx-xml" => flag.format = "cyclonedx-xml" /\ flag.err = Nil
        /\ flag.s \in {"spdx-json", "spdx"} => flag.format = "spdx-json" /\ flag.err = Nil
        /\ flag.s \notin {"cyclonedx-json", "cyclonedx", "cyclonedx-xml", "spdx-json", "spdx"}
                => flag.format = "" /\ flag.err # Nil

C5_Witness == caller = "cli" /\ flag.s = "SPDX" /\ flag.err # Nil /\ pc = "exit"


\* the value of the one member (attribute) of that name
Member(content, name) == Named(content.members, name)[1].value
Attr(content, name) == Named(content.attrs, name)[1].value

DescribesRoot ==
    [SPDXElementID |-> <<"S","P","D","X","R","e","f","-","D","O","C","U","M","E","N","T">>, RelationshipType |-> "DESCRIBES",
     RelatedSPDXElement |-> <<"S","P","D","X","R","e","f","-","P","a","c","k","a","g","e","-","r","o","o","t">>]

\* C6: with an empty aggregated list every canonical format still succeeds:
\* no components in CycloneDX, the root package and the DESCRIBES
\* relationship alone in SPDX
C6_EmptyListIsValid ==
    (Finished /\ input.Format \in CanonicalFormats /\ allDeps = <<>>) =>
        /\ ret.err = Nil /\ Succeeded
        /\ Returned.Dependencies = <<>>
        /\ input.Format \in {FormatCycloneDXJSON, FormatCycloneDXXML} =>
                /\ Len(Named(Returned.Content.members, IF input.Format = FormatCycloneDXJSON
                                                       THEN "components"
                                                       ELSE "components>component")) = 1
                /\ Member(Returned.Content, IF input.Format = FormatCycloneDXJSON
                                            THEN "components"
                                            ELSE "components>component") = <<>>
        /\ input.Format = FormatSPDXJSON =>
                /\ Len(Member(Returned.Content, "packages")) = 1
                /\ Member(Returned.Content, "packages")[1].SPDXID = <<"S","P","D","X","R","e","f","-","P","a","c","k","a","g","e","-","r","o","o","t">>
                /\ Member(Returned.Content, "relationships") = <<DescribesRoot>>

\* only files whose Parse failed, and an SPDX document made of them
C6_Witness ==
    /\ Succeeded
    /\ input.Format = FormatSPDXJSON
    /\ allDeps = <<>>
    /\ parseCalls # <<>>
    /\ Len(Member(Returned.Content, "packages")) = 1

Count(deps, P(_)) == Cardinality({i \in DOMAIN deps : P(deps[i])})

\* C7: calculateStats counts the list, its direct entries, its entries with
\* and without a license, and its distinct Type values
C7_StatsCounts ==
    unit.fn = "calculateStats" =>
        /\ unit.out.TotalDependencies = Len(unit.deps)
        /\ unit.out.DirectDependencies = Count(unit.deps, LAMBDA d : d.Direct)
        /\ unit.out.WithLicense = Count(unit.deps, LAMBDA d : d.License # <<>>)
        /\ unit.out.WithoutLicense = Count(unit.deps, LAMBDA d : d.License = <<>>)
        /\ unit.out.Ecosystems = Cardinality({unit.deps[i].Type : i \in DOMAIN unit.deps})

\* the spec's example: 3 dependencies, 2 direct, 2 licensed, 2 ecosystems
C7_Witness ==
    /\ unit.fn = "calculateStats"
    /\ unit.out = [TotalDependencies |-> 3, DirectDependencies |-> 2, WithLicense |-> 2,
                   WithoutLicense |-> 1, Ecosystems |-> 2]

\* C8: N + 1 packages, the root first and the dependencies in input order;
\* 1 + M relationships, DESCRIBES first and then one DEPENDS_ON from the root
\* for each Direct dependency and for no other
C8_SPDXPackagesAndRelationships ==
    unit.fn = "buildSPDXDocument" =>
        LET deps == unit.deps
            pk == unit.out.Packages
            rel == unit.out.Relationships
            direct == {i \in DOMAIN deps : deps[i].Direct}
        IN  /\ Len(pk) = Len(deps) + 1
            /\ pk[1].SPDXID = <<"S","P","D","X","R","e","f","-","P","a","c","k","a","g","e","-","r","o","o","t">>
            /\ \A i \in DOMAIN deps :
                    pk[i + 1].Name = deps[i].Name /\ pk[i + 1].VersionInfo = deps[i].Version
            /\ Len(rel) = 1 + Cardinality(direct)
            /\ rel[1] = DescribesRoot
            /\ \A k \in 2..Len(rel) :
                    /\ rel[k].RelationshipType = "DEPENDS_ON"
                    /\ rel[k].SPDXElementID = <<"S","P","D","X","R","e","f","-","P","a","c","k","a","g","e","-","r","o","o","t">>
            /\ \A i \in DOMAIN deps :
                    (\E k \in 2..Len(rel) : rel[k].RelatedSPDXElement = pk[i + 1].SPDXID)
                        <=> deps[i].Direct

\* three dependencies of which the middle one is indirect
C8_Witness ==
    /\ unit.fn = "buildSPDXDocument"
    /\ Len(unit.deps) = 3
    /\ unit.deps[1].Direct /\ ~unit.deps[2].Direct /\ unit.deps[3].Direct
    /\ Len(unit.out.Packages) = 4
    /\ Len(unit.out.Relationships) = 3

PkgRefs == << <<"p","k","g","-","1">>, <<"p","k","g","-","2">>, <<"p","k","g","-","3">>, <<"p","k","g","-","4">>, <<"p","k","g","-","5">> >>

\* C9: one component per dependency in input order, of type library, with
\* bom-ref pkg-i, the dependency's name, version and purl, and one license
\* entry by id exactly when the dependency has a license
C9_OneComponentPerDependency ==
    unit.fn = "buildCycloneDXBom" =>
        LET deps == unit.deps
            comps == unit.out.Components
        IN  /\ Len(comps) = Len(deps)
            /\ \A i \in DOMAIN deps :
                    /\ comps[i].Type = "library"
                    /\ comps[i].BomRef = PkgRefs[i]
                    /\ comps[i].Name = deps[i].Name
                    /\ comps[i].Version = deps[i].Version
                    /\ comps[i].PURL = deps[i].PURL
                    /\ deps[i].License # <<>> =>
                            /\ Len(comps[i].Licenses) = 1
                            /\ comps[i].Licenses[1].License.ID = deps[i].License
                    /\ deps[i].License = <<>> => comps[i].Licenses = <<>>
            /\ \A i, j \in DOMAIN comps : i # j => comps[i].BomRef # comps[j].BomRef

C9_Witness ==
    /\ unit.fn = "buildCycloneDXBom"
    /\ Len(unit.deps) = 3
    /\ unit.deps[1].License # <<>> /\ unit.deps[2].License = <<>>
    /\ unit.out.Components[3].BomRef = <<"p","k","g","-","3">>

\* C10: the JSON document has bomFormat "CycloneDX" and specVersion "1.4"; the
\* XML document has no bomFormat field, has the 1.4 namespace and version on
\* its root element and starts with the XML declaration; both carry the
\* components of the BOM
C10_CycloneDXEncodings ==
    /\ unit.fn = "generateCycloneDXJSON" =>
            /\ unit.out.err = Nil
            /\ Member(unit.out.content, "bomFormat") = "CycloneDX"
            /\ Member(unit.out.content, "specVersion") = "1.4"
            /\ Member(unit.out.content, "components")
                    = buildCycloneDXBom(unit.input, unit.deps, g, Uuid(1), 0).Components
    /\ unit.fn = "generateCycloneDXXML" =>
            /\ unit.out.err = Nil
            /\ unit.out.content.header = "<?xml version=\"1.0\" encoding=\"UTF-8\"?>"
            /\ unit.out.content.root = "bom"
            /\ Attr(unit.out.content, "xmlns") = "http://cyclonedx.org/schema/bom/1.4"
            /\ Attr(unit.out.content, "version") = "1.4"
            /\ Member(unit.out.content, "components>component")
                    = buildCycloneDXBom(unit.input, unit.deps, g, Uuid(1), 0).Components
            /\ \A name \in {"bomFormat", "BomFormat"} :
                    /\ Named(unit.out.content.attrs, name) = <<>>
                    /\ Named(unit.out.content.members, name) = <<>>

\* C10 without the clause on the bomFormat field, which is what holds
C10_WithoutBomFormatClause ==
    /\ unit.fn = "generateCycloneDXJSON" =>
            /\ Member(unit.out.content, "bomFormat") = "CycloneDX"
            /\ Member(unit.out.content, "specVersion") = "1.4"
    /\ unit.fn = "generateCycloneDXXML" =>
            /\ unit.out.content.header = "<?xml version=\"1.0\" encoding=\"UTF-8\"?>"
            /\ Attr(unit.out.content, "xmlns") = "http://cyclonedx.org/schema/bom/1.4"
            /\ Attr(unit.out.content, "version") = "1.4"
            /\ Member(unit.out.content, "components>component")
                    = buildCycloneDXBom(unit.input, unit.deps, g, Uuid(1), 0).Components


\* C11: every dependency package has licenseConcluded and licenseDeclared
\* equal to the dependency's License, and both equal to NOASSERTION when the
\* dependency has no license
C11_LicenseOrNoAssertion ==
    unit.fn = "buildSPDXDocument" =>
        \A i \in DOMAIN unit.deps :
            LET dep == unit.deps[i]
                p == unit.out.Packages[i + 1]
                expected == IF dep.License # <<>> THEN dep.License ELSE <<"N","O","A","S","S","E","R","T","I","O","N">>
            IN  p.LicenseConcluded = expected /\ p.LicenseDeclared = expected

\* C11 for licenseConcluded alone, and for licenseDeclared of licensed
\* dependencies, which is what holds
C11_ConcludedOnly ==
    unit.fn = "buildSPDXDocument" =>
        \A i \in DOMAIN unit.deps :
            LET dep == unit.deps[i]
                p == unit.out.Packages[i + 1]
            IN  /\ p.LicenseConcluded
                        = IF dep.License # <<>> THEN dep.License ELSE <<"N","O","A","S","S","E","R","T","I","O","N">>
                /\ dep.License # <<>> => p.LicenseDeclared = dep.License
                /\ dep.License = <<>> => p.LicenseDeclared = <<>>


(***************************************************************************)
(* Direct calls of the registry's and the parsers' helper functions, the   *)
(* way the package's table tests call them.                                *)
(***************************************************************************)
MaxNameLen == 3
MaxVersionLen == 3
MaxLines == 2

\* the strings of at most n characters over an alphabet
Strings(alphabet, n) == UNION {[1..k -> alphabet] : k \in 0..n}

\* file names and patterns of TestMatchPattern, names that only end with or
\* contain a pattern, and every short name over a small alphabet
TestFileNames ==
    { <<"g","o",".","m","o","d">>, <<"/","p","a","t","h","/","t","o","/","g","o",".","m","o","d">>, <<"a","/","b","/","g","o",".","m","o","d">>, <<"g","o",".","m","o","d",".","b","a","k">>, <<"x","g","o",".","m","o","d">>,
      <<"a","/","x","g","o",".","m","o","d">>, <<"g","o",".","m","o","d","/","x">>, <<"g","o",".","s","u","m">>,
      <<"p","a","c","k","a","g","e",".","j","s","o","n">>, <<"/","a","p","p","/","p","a","c","k","a","g","e",".","j","s","o","n">>, <<"p","a","c","k","a","g","e",".","j","s","o","n","5">>, <<"m","y","-","p","a","c","k","a","g","e",".","j","s","o","n">>,
      <<"r","e","q","u","i","r","e","m","e","n","t","s",".","t","x","t">>, <<"r","e","q","u","i","r","e","m","e","n","t","s","-","d","e","v",".","t","x","t">>, <<"r","e","q","u","i","r","e","m","e","n","t","s","-","t","e","s","t",".","t","x","t">>,
      <<"p","y","/","r","e","q","u","i","r","e","m","e","n","t","s","-","d","e","v",".","t","x","t">>, <<"a","/","b","/","r","e","q","u","i","r","e","m","e","n","t","s","-","t","e","s","t",".","t","x","t">>,
      <<"r","e","q","u","i","r","e","m","e","n","t","s","-","p","r","o","d",".","t","x","t">>, <<"d","e","v","-","r","e","q","u","i","r","e","m","e","n","t","s",".","t","x","t">>, <<"u","n","k","n","o","w","n",".","t","x","t">> }

TestPatterns ==
    { <<"g","o",".","m","o","d">>, <<"p","a","c","k","a","g","e",".","j","s","o","n">>, <<"r","e","q","u","i","r","e","m","e","n","t","s",".","t","x","t">>, <<"r","e","q","u","i","r","e","m","e","n","t","s","-","d","e","v",".","t","x","t">>,
      <<"r","e","q","u","i","r","e","m","e","n","t","s","-","t","e","s","t",".","t","x","t">> }

ShortNames == Strings({"m", "/", "."}, MaxNameLen)

\* package.json contents: those of the manifests, a name in both maps, ranges
\* and spaces in the versions, and an object without either map
TestPackageJSON ==
    PackageJSONManifests \cup
    { Content(<<"{","\"","d","e","p","e","n","d","e","n","c","i","e","s","\"",":","{","\"","x","\"",":","\"","^","4",".","1","\"","}",",","\"","d","e","v","D","e","p","e","n","d","e","n","c","i","e","s","\"",":","{","\"","x","\"",":","\"","~","2",".","0","\"","}","}">>,
              JSONObject(<<"x">> :> <<"^","4",".","1">>, <<"x">> :> <<"~","2",".","0">>)),
      Content(<<"{","\"","d","e","p","e","n","d","e","n","c","i","e","s","\"",":","{","\"","x","\"",":","\""," ",">","=","1",".","x"," ","\"",",","\"","y","\"",":","\"","2",".","0","\"",",","\"","@","t","/","n","\"",":","\"","=","3","\"","}","}">>,
              JSONObject((<<"x">> :> <<" ",">","=","1",".","x"," ">>) @@ (<<"y">> :> <<"2",".","0">>) @@ (<<"@","t","/","n">> :> <<"=","3">>),
                         <<>>)),
      Content(<<"{","\"","d","e","v","D","e","p","e","n","d","e","n","c","i","e","s","\"",":","{","\"","y","\"",":","\"","<","=","1",".","2",".","x","\"",",","\"","z","\"",":","\"","*","\"","}","}">>,
              JSONObject(<<>>, (<<"y">> :> <<"<","=","1",".","2",".","x">>) @@ (<<"z">> :> <<"*">>))),
      Content(<<"{","\"","n","a","m","e","\"",":","\"","a","p","p","\"","}">>, JSONObject(<<>>, <<>>)),
      Content(<<"{","\"","d","e","p","e","n","d","e","n","c","i","e","s","\"",":","{","\"","\"",":","\"","1",".","0",".","0","\"","}","}">>, JSONObject(EmptyStr :> <<"1",".","0",".","0">>, <<>>)),
      Content(<<"n","o","t"," ","j","s","o","n">>, NotJSON) }

\* version strings of TestCleanNpmVersion and every short string over the
\* operators, a digit, the dot, x and the space
TestVersions ==
    { <<"^","4",".","1","8",".","2">>, <<"~","2","0",".","0",".","0">>, <<">","=","2",".","3","1",".","0">>, <<"<","=","7",".","4",".","0">>, <<">","1",".","2","4",".","0">>, <<"<","1",".","2","4",".","0">>,
      <<"=","1",".","2","4",".","0">>, <<"4",".","1","7",".","2","1">>, <<" "," ","4",".","1","7",".","2","1"," "," ">>, <<"1",".","x",".","x">>, <<"1",".","2",".","x">>, <<"1",".","2",".","3">> }

ShortVersions == Strings({"^", "~", ">", "<", "=", "1", ".", "x", " "}, MaxVersionLen)

\* lines of a requirements.txt file
TestRequirementLines ==
    { EmptyStr, <<" "," ">>, <<"#"," ","p","i","n","n","e","d">>, <<"-","r"," ","b","a","s","e",".","t","x","t">>, <<"-","-","i","n","d","e","x","-","u","r","l"," ","h","t","t","p","s",":","/","/","x">>,
      <<"D","j","a","n","g","o","=","=","4",".","2",".","0">>, <<"f","l","a","s","k">>, <<"m","y","_","p","k","g","[","e","x","t","r","a",",","m","o","r","e","]",">","=","1",".","0">>, <<" "," ","n","u","m","p","y"," ","~","="," ","1",".","2","4"," "," ">>,
      <<"r","e","q","u","e","s","t","s","=","=","2",".","3","1",".","0"," ",";"," ","p","y",">","3">>, <<";"," ","o","n","l","y"," ","a"," ","m","a","r","k","e","r">>,
      <<"p","k","g","[","x","]">>, <<".","/","l","o","c","a","l","/","p","a","t","h">> }

\* the texts of at most MaxLines of these lines, each ended by a newline
RECURSIVE JoinLines(_)
JoinLines(lines) ==
    IF lines = <<>> THEN <<>> ELSE Head(lines) \o <<"\n">> \o JoinLines(Tail(lines))

TestRequirements ==
    {Content(JoinLines(ls), NotJSON) :
        ls \in UNION {[1..n -> TestRequirementLines] : n \in 0..MaxLines}}

\* names and versions of TestBuildPyPIPURL and TestBuildGoPURL, and short ones
TestPyPINames ==
    { <<"D","j","a","n","g","o">>, <<"r","e","q","u","e","s","t","s">>, <<"F","l","a","s","k">>, <<"m","y","_","p","a","c","k","a","g","e">> }
        \cup Strings({"D", "j", "_", "-"}, MaxNameLen)

TestPyPIVersions == { EmptyStr, <<"4",".","2",".","0">>, <<"1",".","0",".","0">> }

TestGoModules ==
    { <<"g","i","t","h","u","b",".","c","o","m","/","g","i","n","-","g","o","n","i","c","/","g","i","n">>, <<"g","o","l","a","n","g",".","o","r","g","/","x","/","c","r","y","p","t","o">> }
        \cup Strings({"a", "/", "."}, MaxNameLen)

TestGoVersions == { <<"v","1",".","9",".","1">>, <<"v","0",".","1","4",".","0">> }

HelperCall(fn, args, out) ==
    /\ unit = NoUnit
    /\ pc = "idle"
    /\ unit' = [fn |-> fn, args |-> args, out |-> out]
    /\ UNCHANGED <<g, goroutines, pc, caller, flag, input, todo, allDeps, parseCalls, ret, prev,
                   uuids, clock>>

CallMatchPattern(filename, pattern) ==
    HelperCall("matchPattern", <<filename, pattern>>, matchPattern(filename, pattern))

CallGetParserForFile(filename) ==
    HelperCall("GetParserForFile", <<filename>>, GetParserForFile(filename))

CallPackageJSONParse(content) ==
    \E r \in PackageJSONParse(content) : HelperCall("PackageJSONParser.Parse", <<content>>, r)

CallCleanNpmVersion(version) ==
    HelperCall("cleanNpmVersion", <<version>>, cleanNpmVersion(version))

CallRequirementsTxtParse(content) ==
    HelperCall("RequirementsTxtParser.Parse", <<content>>, RequirementsTxtParse(content))

CallBuildPyPIPURL(name, version) ==
    HelperCall("buildPyPIPURL", <<name, version>>, buildPyPIPURL(name, version))

CallBuildGoPURL(name, version) ==
    HelperCall("buildGoPURL", <<name, version>>, buildGoPURL(name, version))

MaxGoLines == 3

\* lines of a go.mod file that open and close blocks, and entries, requires
\* and comments between them
TestGoModLines ==
    { <<"r","e","q","u","i","r","e"," ","(">>, <<"r","e","q","u","i","r","e","(">>, <<")">>, <<"a","/","b"," ","v","1",".","2">>, <<"\t","c"," ","v","1",".","0"," ","/","/"," ","i","n","d","i","r","e","c","t">>,
      <<"r","e","q","u","i","r","e"," ","e"," ","v","3",".","0">>, <<" "," ","r","e","q","u","i","r","e"," ","f"," ","v","0",".","1">>, <<"r","e","p","l","a","c","e"," ","(">>, <<"/","/"," ","c">>, <<"m","o","d","u","l","e"," ","m">> }

\* the texts of at most MaxGoLines of these lines, the content of
\* TestGoModParser with shorter module paths, and files with a replace block,
\* a pseudo-version, and comments after the entries
TestGoMod ==
    {Content(JoinLines(ls), NotJSON) :
        ls \in UNION {[1..n -> TestGoModLines] : n \in 0..MaxGoLines}}
    \cup
    { Content(<<"m","o","d","u","l","e"," ","m","\n","\n","g","o"," ","1",".","2","1","\n","\n","r","e","q","u","i","r","e"," ","(","\n","\t","a","/","g","i","n"," ","v","1",".","9",".","1","\n","\t","b","/","u","u","i","d"," ","v","1",".","3",".","0","\n">>
                \o <<"\t","c"," ","v","0",".","1"," ","/","/"," ","i","n","d","i","r","e","c","t","\n",")","\n","\n","r","e","q","u","i","r","e"," ","s","/","t"," ","v","1",".","8",".","4","\n">>, NotJSON),
      Content(<<"m","o","d","u","l","e"," ","m","\n","g","o"," ","1",".","2","1","\n","r","e","q","u","i","r","e"," ","(","\n","\t","a"," ","v","1",".","0","\n",")","\n","r","e","p","l","a","c","e"," ","(","\n","\t","a"," ","v","1",".","0"," ","=",">"," ",".",".","/","a"," ","v","1",".","1","\n">>
                \o <<"\t","b"," ","v","0",".","2"," ","=",">"," ","c"," ","v","0",".","3","\n",")","\n","r","e","p","l","a","c","e"," ","d"," ","v","1",".","0"," ","=",">"," ","e"," ","v","2","\n">>, NotJSON),
      Content(<<"r","e","q","u","i","r","e"," ","g"," ","v","0",".","0",".","0","-","1","-","a","b","\n">>, NotJSON),
      Content(<<"r","e","q","u","i","r","e"," ","(","\n","\t","d"," ","v","2",".","1"," ","/","/","i","n","d","i","r","e","c","t","\n","\t","e"," ","v","1",".","0"," ","/","/"," ","d","i","r","e","c","t","\n","\t","f"," ","v","1",".","1","-","r","c",".","1","\n",")","\n">>,
              NotJSON) }

\* every name of var dependencyFiles, which the CLI collects from a
\* directory or repository
CollectedFiles ==
    { <<"g","o",".","m","o","d">>, <<"g","o",".","s","u","m">>, <<"p","a","c","k","a","g","e",".","j","s","o","n">>, <<"p","a","c","k","a","g","e","-","l","o","c","k",".","j","s","o","n">>, <<"y","a","r","n",".","l","o","c","k">>,
      <<"r","e","q","u","i","r","e","m","e","n","t","s",".","t","x","t">>, <<"P","i","p","f","i","l","e">>, <<"P","i","p","f","i","l","e",".","l","o","c","k">>, <<"C","a","r","g","o",".","t","o","m","l">>, <<"C","a","r","g","o",".","l","o","c","k">>,
      <<"p","o","m",".","x","m","l">>, <<"b","u","i","l","d",".","g","r","a","d","l","e">>, <<"G","e","m","f","i","l","e">>, <<"G","e","m","f","i","l","e",".","l","o","c","k">>, <<"c","o","m","p","o","s","e","r",".","j","s","o","n">> }

CallGoModParse(content) ==
    HelperCall("GoModParser.Parse", <<content>>, GoModParse(content))

HelperNext ==
    \/ unit = NoUnit /\ \E filename \in TestFileNames \cup ShortNames,
                           pattern \in TestPatterns \cup ShortNames :
                            CallMatchPattern(filename, pattern)
    \/ unit = NoUnit /\ \E filename \in TestFileNames \cup ShortNames \cup CollectedFiles :
                            CallGetParserForFile(filename)
    \/ unit = NoUnit /\ \E content \in TestPackageJSON : CallPackageJSONParse(content)
    \/ unit = NoUnit /\ \E version \in TestVersions \cup ShortVersions :
                            CallCleanNpmVersion(version)
    \/ unit = NoUnit /\ \E content \in TestRequirements : CallRequirementsTxtParse(content)
    \/ unit = NoUnit /\ \E name \in TestPyPINames, version \in TestPyPIVersions :
                            CallBuildPyPIPURL(name, version)
    \/ unit = NoUnit /\ \E name \in TestGoModules, version \in TestGoVersions :
                            CallBuildGoPURL(name, version)
    \/ unit = NoUnit /\ \E content \in TestGoMod : CallGoModParse(content)

HelperSpec == Init /\ [][HelperNext]_vars


\* C12: matchPattern(filename, pattern) is true exactly when filename is the
\* pattern or is some prefix followed by "/" and the pattern; go.mod.bak and
\* xgo.mod do not match go.mod
C12_MatchPatternBoundary ==
    unit.fn = "matchPattern" =>
        LET filename == unit.args[1]
            pattern == unit.args[2]
        IN  /\ unit.out <=>
                    \/ filename = pattern
                    \/ \E k \in 0..Len(filename) :
                            /\ k + 1 + Len(pattern) = Len(filename)
                            /\ filename[k + 1] = "/"
                            /\ \A i \in 1..Len(pattern) : filename[k + 1 + i] = pattern[i]
            /\ pattern = <<"g","o",".","m","o","d">> /\ filename \in {<<"g","o",".","m","o","d",".","b","a","k">>, <<"x","g","o",".","m","o","d">>} => ~unit.out

\* a nested name that only ends with the pattern does not match
C12_Witness ==
    /\ unit.fn = "matchPattern"
    /\ unit.args[2] = <<"g","o",".","m","o","d">>
    /\ unit.args[1] = <<"a","/","x","g","o",".","m","o","d">>
    /\ ~unit.out


\* the part of a path after its last "/"
BaseName(filename) ==
    LET slashes == {i \in 1..Len(filename) : filename[i] = "/"}
    IN  IF slashes = {} THEN filename
        ELSE Drop(filename, CHOOSE i \in slashes : \A j \in slashes : j <= i)

\* C13: GetParserForFile returns the Go parser for go.mod, the npm parser for
\* package.json and the Python parser for requirements.txt,
\* requirements-dev.txt and requirements-test.txt, in any directory, and no
\* parser for any other name
C13_ParserByFileName ==
    unit.fn = "GetParserForFile" =>
        LET base == BaseName(unit.args[1])
        IN  unit.out =
                CASE base = <<"g","o",".","m","o","d">> -> "go"
                  [] base = <<"p","a","c","k","a","g","e",".","j","s","o","n">> -> "npm"
                  [] base \in {<<"r","e","q","u","i","r","e","m","e","n","t","s",".","t","x","t">>, <<"r","e","q","u","i","r","e","m","e","n","t","s","-","d","e","v",".","t","x","t">>,
                               <<"r","e","q","u","i","r","e","m","e","n","t","s","-","t","e","s","t",".","t","x","t">>} -> "python"
                  [] OTHER -> Nil

\* a nested requirements-test.txt resolves to the Python parser
C13_Witness ==
    /\ unit.fn = "GetParserForFile"
    /\ unit.args[1] = <<"a","/","b","/","r","e","q","u","i","r","e","m","e","n","t","s","-","t","e","s","t",".","t","x","t">>
    /\ unit.out = "python"


\* C14: PackageJSONParser.Parse returns one Dependency for each entry of
\* dependencies followed by one for each entry of devDependencies, each of
\* Type npm and Direct, with the cleaned version and the PURL of the name and
\* the cleaned version; malformed JSON gives an error and no dependencies
C14_OneDependencyPerEntry ==
    unit.fn = "PackageJSONParser.Parse" =>
        LET json == unit.args[1].json
            deps == unit.out.deps
            d == json.Dependencies
            dd == json.DevDependencies
            n == Cardinality(DOMAIN d)
            Built(dep, m) ==
                /\ dep.Name \in DOMAIN m
                /\ dep.Version = cleanNpmVersion(m[dep.Name])
                /\ dep.Type = "npm"
                /\ dep.Direct
                /\ dep.PURL = <<"p","k","g",":","n","p","m","/">> \o dep.Name \o <<"@">> \o dep.Version
        IN  IF ~json.ok THEN unit.out.err # Nil /\ deps = <<>>
            ELSE /\ unit.out.err = Nil
                 /\ Len(deps) = n + Cardinality(DOMAIN dd)
                 /\ {deps[i].Name : i \in 1..n} = DOMAIN d
                 /\ {deps[i].Name : i \in (n + 1)..Len(deps)} = DOMAIN dd
                 /\ \A i \in 1..n : Built(deps[i], d)
                 /\ \A i \in (n + 1)..Len(deps) : Built(deps[i], dd)

\* a name of both maps is returned twice, with the version of each map
C14_Witness ==
    /\ unit.fn = "PackageJSONParser.Parse"
    /\ Len(unit.out.deps) = 2
    /\ unit.out.deps[1].Name = unit.out.deps[2].Name
    /\ unit.out.deps[1].Version = <<"4",".","1">>
    /\ unit.out.deps[2].Version = <<"2",".","0">>


NpmOperators == {"^", "~", ">", "<", "="}

\* C15: the result of cleanNpmVersion begins with none of the range
\* operators ^ ~ >= <= > < = and contains no ".x"; a version without
\* operator and without ".x" comes back trimmed and otherwise unchanged
C15_CleanVersionHasNoOperator ==
    unit.fn = "cleanNpmVersion" =>
        LET version == unit.args[1]
            out == unit.out
        IN  /\ out # <<>> => out[1] \notin NpmOperators
            /\ ~Contains(out, <<".","x">>)
            /\ (\A i \in DOMAIN version : version[i] \notin NpmOperators)
                    /\ ~Contains(version, <<".","x">>)
                => out = TrimSpace(version)

\* C15 for the versions that carry at most one range operator at the front,
\* which is what holds
C15_SingleOperator ==
    unit.fn = "cleanNpmVersion" =>
        LET version == TrimSpace(unit.args[1])
            out == unit.out
            op == IF \E p \in {<<">","=">>, <<"<","=">>} : HasPrefix(version, p) THEN 2
                  ELSE IF version # <<>> /\ version[1] \in NpmOperators THEN 1 ELSE 0
            rest == Drop(version, op)
        IN  /\ ~Contains(out, <<".","x">>)
            /\ (rest = <<>> \/ rest[1] \notin NpmOperators)
                    => out = ReplaceAll(rest, <<".","x">>, <<".","0">>)


\* what a requirements line is read as: the line trimmed, nothing when it is
\* blank, a comment or an option, and else its part before the first ";"
Requirement(line) ==
    LET t == TrimSpace(line)
        semis == {i \in 1..Len(t) : t[i] = ";"}
    IN  IF t = <<>> \/ t[1] \in {"#", "-"} THEN <<>>
        ELSE IF semis = {} THEN t
        ELSE TrimSpace(Take(t, (CHOOSE i \in semis : \A j \in semis : i <= j) - 1))

StartsWithPackageName(line) ==
    Requirement(line) # <<>> /\ PkgNameChar(Requirement(line)[1])

\* the package name a requirement starts with
RequirementName(req) == Take(req, RunLen(req, PkgNameChar))

\* what follows the name and its bracketed extras
RequirementTail(req) ==
    LET after == Drop(req, Len(RequirementName(req)))
        close == Index(after, <<"]">>)
    IN  TrimSpace(IF after # <<>> /\ after[1] = "[" /\ close >= 2
                  THEN Drop(after, close + 1) ELSE after)

\* the version number a requirement ends with
PinnedVersion(req) ==
    LET tail == RequirementTail(req)
        n == RunLen(Reverse(tail), DigitOrDot)
    IN  Drop(tail, Len(tail) - n)

\* the requirement is a name, maybe extras, a comparison operator and a
\* version number
IsPinned(req) ==
    LET tail == RequirementTail(req)
        ver == PinnedVersion(req)
        op == TrimSpace(Take(tail, Len(tail) - Len(ver)))
    IN  /\ ver # <<>>
        /\ op # <<>>
        /\ \A i \in DOMAIN op : OperatorChar(op[i])

NormalName(name) ==
    [i \in 1..Len(name) |-> IF name[i] = "_" THEN "-" ELSE ToLowerChar(name[i])]

PyPIPURLOf(name, version) ==
    <<"p","k","g",":","p","y","p","i","/">> \o NormalName(name) \o (IF version = <<>> THEN <<>> ELSE <<"@">> \o version)

\* C17: buildPyPIPURL returns pkg:pypi/ and the name, lowercased and with "-"
\* for every "_", followed by "@" and the version exactly when the version is
\* not empty; a parsed Dependency keeps the spelling of its Name
C17_PyPIPURLNormalised ==
    /\ unit.fn = "buildPyPIPURL" =>
            LET name == unit.args[1]
                version == unit.args[2]
            IN  /\ unit.out = PyPIPURLOf(name, version)
                /\ \A i \in 10..(9 + Len(name)) :
                        unit.out[i] # "_" /\ unit.out[i] \notin UpperLetters
                /\ version = <<>> => ~Contains(unit.out, <<"@">>)
    /\ unit.fn = "RequirementsTxtParser.Parse" =>
            \A i \in DOMAIN unit.out.deps :
                LET dep == unit.out.deps[i]
                    line == SelectSeq(Scan(unit.args[1].text).lines, StartsWithPackageName)[i]
                IN  /\ HasPrefix(TrimSpace(line), dep.Name)
                    /\ dep.PURL = PyPIPURLOf(dep.Name, dep.Version)

\* Django read from a requirements file keeps its capital in Name and has
\* the lowercased PURL
C17_Witness ==
    /\ unit.fn = "RequirementsTxtParser.Parse"
    /\ Len(unit.out.deps) = 1
    /\ unit.out.deps[1].Name = <<"D","j","a","n","g","o">>
    /\ unit.out.deps[1].PURL = <<"p","k","g",":","p","y","p","i","/","d","j","a","n","g","o","@","4",".","2",".","0">>

\* C18: buildGoPURL returns pkg:golang/, the module path with %2F for every
\* "/", "@" and the version; the path part holds no "/"
C18_GoPURLEscapesSlash ==
    unit.fn = "buildGoPURL" =>
        LET name == unit.args[1]
            version == unit.args[2]
            slashes == Cardinality({i \in DOMAIN name : name[i] = "/"})
            pathLen == Len(name) + 2 * slashes
            path == SubSeq(unit.out, 12, 11 + pathLen)
        IN  /\ Len(unit.out) = 11 + pathLen + 1 + Len(version)
            /\ HasPrefix(unit.out, <<"p","k","g",":","g","o","l","a","n","g","/">>)
            /\ HasSuffix(unit.out, <<"@">> \o version)
            /\ ~Contains(path, <<"/">>)
            /\ ReplaceAll(path, <<"%","2","F">>, <<"/">>) = name

C18_Witness ==
    /\ unit.fn = "buildGoPURL"
    /\ unit.args = << <<"g","i","t","h","u","b",".","c","o","m","/","g","i","n","-","g","o","n","i","c","/","g","i","n">>, <<"v","1",".","9",".","1">> >>
    /\ unit.out = <<"p","k","g",":","g","o","l","a","n","g","/","g","i","t","h","u","b",".","c","o","m","%","2","F","g","i","n","-","g","o","n","i","c","%","2","F","g","i","n","@","v","1",".","9",".","1">>


\* C19: the step of Generate that runs calculateStats and a generate
\* function leaves allDeps as it was, and the Dependencies it returns are
\* the list as it was before the build: same length, order and fields
C19_BuildersLeaveDependencies ==
    [][pc = "range" /\ pc' = "done" =>
            /\ allDeps' = allDeps
            /\ ret'.err = Nil =>
                    /\ Len(ret'.sbom[1].Dependencies) = Len(allDeps)
                    /\ \A i \in DOMAIN allDeps : ret'.sbom[1].Dependencies[i] = allDeps[i]]_vars

\* a document was built from three dependencies, which are returned
C19_Witness ==
    /\ pc = "done"
    /\ ret.err = Nil
    /\ Len(allDeps) = 3
    /\ ret.sbom[1].Dependencies = allDeps
    /\ ret.sbom[1].Stats.TotalDependencies = 3


(***************************************************************************)
(* Concurrent Generate calls on one Generator.  Each goroutine runs        *)
(* Generate on its own GeneratorInput with its own locals; the Generator,  *)
(* the UUID source and the clock are what the calls share, and the steps   *)
(* of the calls interleave in any order.                                   *)
(***************************************************************************)
ConcFiles ==
    {files \in FileMaps({ <<"g","o",".","m","o","d">>, <<"p","a","c","k","a","g","e",".","j","s","o","n">> }) : Cardinality(DOMAIN files) = 2}

ConcInputs ==
    {GeneratorInput(<<"o","r","g">>, <<"r","e","p","o">>, files, format, <<"c","0","f","f","e","e">>) :
        files \in ConcFiles, format \in {FormatCycloneDXJSON, FormatSPDXJSON}}

GoFrame == UNCHANGED <<g, pc, caller, flag, input, todo, allDeps, parseCalls, ret, prev, unit>>

\* goroutine p calls g.Generate(in)
GoGenerate(p, in) ==
    /\ goroutines[p].pc = "idle"
    /\ goroutines' = [goroutines EXCEPT ![p] =
            [pc |-> "range", given |-> in, input |-> in, todo |-> DOMAIN in.Files,
             allDeps |-> <<>>, ret |-> NoRet]]
    /\ GoFrame
    /\ UNCHANGED <<uuids, clock>>

\* RangeFile appending to the allDeps of every call that is in its loop
GoRangeFileSharedList(p, filename) ==
    /\ goroutines[p].pc = "range"
    /\ filename \in goroutines[p].todo
    /\ LET parser == GetParserForFile(filename)
       IN  IF parser = Nil
           THEN goroutines' = [goroutines EXCEPT ![p].todo = @ \ {filename}]
           ELSE \E r \in Parse(parser, goroutines[p].input.Files[filename]) :
                    goroutines' =
                        [q \in Goroutines |->
                            IF goroutines[q].pc # "range" THEN goroutines[q]
                            ELSE [goroutines[q] EXCEPT
                                    !.todo = IF q = p THEN @ \ {filename} ELSE @,
                                    !.allDeps = Aggregate(@, r)]]
    /\ GoFrame
    /\ UNCHANGED <<uuids, clock>>

\* one iteration of goroutine p's range over input.Files
GoRangeFile(p, filename) ==
    /\ goroutines[p].pc = "range"
    /\ filename \in goroutines[p].todo
    /\ LET parser == GetParserForFile(filename)
       IN  IF parser = Nil
           THEN goroutines' = [goroutines EXCEPT ![p].todo = @ \ {filename}]
           ELSE \E r \in Parse(parser, goroutines[p].input.Files[filename]) :
                    goroutines' = [goroutines EXCEPT ![p].todo = @ \ {filename},
                                                     ![p].allDeps = Aggregate(@, r)]
    /\ GoFrame
    /\ UNCHANGED <<uuids, clock>>

\* goroutine p leaves its loop: calculateStats, the switch and the return
GoReturn(p) ==
    /\ goroutines[p].pc = "range"
    /\ goroutines[p].todo = {}
    /\ \E dt \in {0, 1} :
        LET my == goroutines[p]
            now == clock + dt
            stats == calculateStats(my.allDeps)
            out == SwitchFormat(my.input, my.allDeps, g, Uuid(uuids + 1), now)
        IN  /\ uuids' = uuids + 1
            /\ clock' = now
            /\ goroutines' = [goroutines EXCEPT
                    ![p].pc = "done",
                    ![p].ret = IF out.err # Nil
                               THEN [sbom |-> <<>>, err |-> out.err]
                               ELSE [sbom |-> <<GeneratedSBOM(my.input, out.content,
                                                              my.allDeps, stats, now, g)>>,
                                     err |-> Nil]]
    /\ GoFrame

ConcNext ==
    \E p \in Goroutines :
        \/ \E in \in ConcInputs : GoGenerate(p, in)
        \/ \E filename \in goroutines[p].todo : GoRangeFile(p, filename)
        \/ GoReturn(p)

ConcSpec == Init /\ [][ConcNext]_vars

\* the Dependencies lists Generate can return for a Files mapping when the
\* call runs alone: one for each order of the range over the mapping and
\* each result of the parsers
SoloDependencies(files) ==
    UNION {Concatenations(files, o) : o \in KeyOrders(files)}

\* C20: whatever the interleaving, the Generator keeps its tool name and
\* version, each call's input stays what its caller passed, and a finished
\* call returns Dependencies it can return when run alone, the Stats of
\* these, and the Generator's tool metadata
C20_ConcurrentCallsAreIndependent ==
    /\ g = NewGenerator
    /\ \A p \in Goroutines :
        LET my == goroutines[p]
        IN  /\ my.input = my.given
            /\ my.pc = "done" =>
                /\ my.ret.err = Nil
                /\ my.ret.sbom[1].Dependencies \in SoloDependencies(my.given.Files)
                /\ my.ret.sbom[1].Stats = calculateStats(my.ret.sbom[1].Dependencies)
                /\ my.ret.sbom[1].ToolName = "Blueprint"
                /\ my.ret.sbom[1].ToolVersion = "1.0.0"

\* two calls on different inputs have both returned, each its own dependencies
C20_Witness ==
    /\ \A p \in Goroutines : goroutines[p].pc = "done"
    /\ goroutines[1].given # goroutines[2].given
    /\ goroutines[1].ret.sbom[1].Dependencies # <<>>
    /\ goroutines[2].ret.sbom[1].Dependencies # <<>>
    /\ goroutines[1].ret.sbom[1].Dependencies # goroutines[2].ret.sbom[1].Dependencies


\* C21: every Dependency a parser returns, and so every Dependency of the
\* list Generate returns, has a non-empty Name
C21_NamesAreNonEmpty ==
    unit.fn \in {"GoModParser.Parse", "PackageJSONParser.Parse",
                 "RequirementsTxtParser.Parse"} =>
        \A i \in DOMAIN unit.out.deps : unit.out.deps[i].Name # <<>>

\* C21 for the go.mod and the requirements.txt parsers, which is what holds
C21_GoAndPythonNames ==
    unit.fn \in {"GoModParser.Parse", "RequirementsTxtParser.Parse"} =>
        \A i \in DOMAIN unit.out.deps : unit.out.deps[i].Name # <<>>


\* the components of a rendered CycloneDX document, and the packages after
\* the root package of a rendered SPDX document
RenderedEntries(sbom) ==
    CASE sbom.Format = FormatCycloneDXJSON -> Member(sbom.Content, "components")
      [] sbom.Format = FormatCycloneDXXML -> Member(sbom.Content, "components>component")
      [] sbom.Format = FormatSPDXJSON -> Tail(Member(sbom.Content, "packages"))

\* C22: a successful Generate returns the input's Format, the Generator's
\* tool name and version, TotalDependencies equal to the length of
\* Dependencies, and a document with one component or one non-root package
\* for each entry of Dependencies, in the same order
C22_ResultIsConsistent ==
    Succeeded =>
        LET deps == Returned.Dependencies
            entries == RenderedEntries(Returned)
        IN  /\ Returned.Format = input.Format
            /\ Returned.ToolName = g.ToolName
            /\ Returned.ToolVersion = g.ToolVersion
            /\ Returned.Stats.TotalDependencies = Len(deps)
            /\ Len(entries) = Len(deps)
            /\ \A i \in DOMAIN deps :
                /\ entries[i].Name = deps[i].Name
                /\ IF Returned.Format = FormatSPDXJSON
                   THEN entries[i].VersionInfo = deps[i].Version
                   ELSE entries[i].Version = deps[i].Version /\ entries[i].PURL = deps[i].PURL
            /\ Returned.Format = FormatSPDXJSON =>
                    Member(Returned.Content, "packages")[1].SPDXID = <<"S","P","D","X","R","e","f","-","P","a","c","k","a","g","e","-","r","o","o","t">>

\* a CycloneDX XML document of three dependencies from two files
C22_Witness ==
    /\ Succeeded
    /\ Returned.Format = FormatCycloneDXXML
    /\ Len(parseCalls) = 2
    /\ Len(Returned.Dependencies) = 3
    /\ Len(RenderedEntries(Returned)) = 3
    /\ Returned.Stats.TotalDependencies = 3


\* C23: every file name the CLI collects, which are the dependency files
\* the README lists as supported, resolves to a parser
C23_CollectedFilesHaveParsers ==
    unit.fn = "GetParserForFile" /\ unit.args[1] \in CollectedFiles => unit.out # Nil

\* the collected names that do resolve to a parser are go.mod, package.json
\* and requirements.txt, and no other
C23_OnlyThreeResolve ==
    unit.fn = "GetParserForFile" /\ unit.args[1] \in CollectedFiles =>
        (unit.out # Nil <=>
            unit.args[1] \in { <<"g","o",".","m","o","d">>, <<"p","a","c","k","a","g","e",".","j","s","o","n">>, <<"r","e","q","u","i","r","e","m","e","n","t","s",".","t","x","t">> })


\* the whitespace-separated fields of a line
RECURSIVE Fields(_)
Fields(s) ==
    LET t == TrimLeftSpace(s)
        n == RunLen(t, NonSpace)
    IN  IF t = <<>> THEN <<>> ELSE <<Take(t, n)>> \o Fields(Drop(t, n))

\* a blank line, a // comment or the module declaration
GoModSkipped(line) ==
    LET t == TrimSpace(line)
    IN  \/ t = <<>>
        \/ HasPrefix(t, <<"/","/">>)
        \/ Len(Fields(t)) >= 2 /\ Fields(t)[1] = <<"m","o","d","u","l","e">>

OpensRequireBlock(line) ==
    HasPrefix(TrimSpace(line), <<"r","e","q","u","i","r","e"," ","(">>) \/ TrimSpace(line) = <<"r","e","q","u","i","r","e","(">>

ClosesBlock(line) == TrimSpace(line) = <<")">>

\* line i lies inside a require block: a require block was opened above it
\* and no lone ")" stands between the opening line and line i
InsideRequireBlock(lines, i) ==
    \E j \in 1..(i - 1) :
        /\ OpensRequireBlock(lines[j])
        /\ \A k \in (j + 1)..(i - 1) : ~ClosesBlock(lines[k])

\* a text of the form <module-path> <version>, a comment or more may follow
IsPathAndVersion(s) ==
    /\ Len(Fields(s)) >= 2
    /\ Len(Fields(s)[2]) >= 2
    /\ Fields(s)[2][1] = "v"
    /\ DigitOrDot(Fields(s)[2][2])

\* the line starts with "require " and goes on with a path and a version
IsSingleLineRequire(line) ==
    /\ HasPrefix(line, <<"r","e","q","u","i","r","e"," ">>)
    /\ ~Contains(line, <<"(">>)
    /\ IsPathAndVersion(Drop(TrimSpace(line), 8))

\* an entry line of the require block it lies in (written with or without
\* the word require)
IsBlockEntry(lines, i) ==
    LET t == TrimSpace(lines[i])
    IN  /\ InsideRequireBlock(lines, i)
        /\ ~GoModSkipped(lines[i])
        /\ ~OpensRequireBlock(lines[i])
        /\ ~ClosesBlock(lines[i])
        /\ IsPathAndVersion(IF HasPrefix(t, <<"r","e","q","u","i","r","e"," ">>) /\ ~Contains(t, <<"(">>)
                            THEN Drop(t, 8) ELSE t)

\* the lines of a go.mod text that yield a dependency, in line order
GoModYielding(lines) ==
    SelectSeq([i \in DOMAIN lines |-> i],
              LAMBDA i : IsBlockEntry(lines, i) \/ IsSingleLineRequire(lines[i]))

HasSingleLineForm(line) ==
    LET t == TrimSpace(line)
    IN  /\ HasPrefix(t, <<"r","e","q","u","i","r","e"," ">>)
        /\ ~Contains(t, <<"(">>)
        /\ IsPathAndVersion(Drop(t, 8))

\* the lines of a go.mod text that have the single-line form
SingleLineRequires(lines) == {i \in DOMAIN lines : HasSingleLineForm(lines[i])}

\* C25: every line whose trimmed text is require <path> <version> yields
\* exactly one dependency with that path and that version, outside and
\* inside a require block
C25_SingleLineRequireYieldsOne ==
    unit.fn = "GoModParser.Parse" /\ unit.out.err = Nil =>
        LET lines == Scan(unit.args[1].text).lines
            deps == unit.out.deps
        IN  /\ Len(deps) >= Cardinality(SingleLineRequires(lines))
            /\ \A i \in SingleLineRequires(lines) :
                 \E k \in DOMAIN deps :
                    /\ deps[k].Name = Fields(lines[i])[2]
                    /\ deps[k].Version = Fields(lines[i])[3]

\* the version is one the parser's pattern takes whole: v, digits and dots,
\* and at most one -suffix of word characters and dots
IsWholeVersion(tok) ==
    LET m == requireRegexFind(<<"x", " ">> \o tok)
    IN  m.ok /\ m.version = tok

\* C25, for the lines the code does treat so: a single-line require that is
\* not indented, or any single-line form inside a require block, whose
\* version the pattern takes whole, yields a dependency with that path and
\* version
C25_UnindentedOrInsideBlock ==
    unit.fn = "GoModParser.Parse" /\ unit.out.err = Nil =>
        LET lines == Scan(unit.args[1].text).lines
            deps == unit.out.deps
            taken == {i \in SingleLineRequires(lines) :
                        /\ HasPrefix(lines[i], <<"r","e","q","u","i","r","e"," ">>) \/ InsideRequireBlock(lines, i)
                        /\ IsWholeVersion(Fields(lines[i])[3])}
        IN  /\ Len(deps) >= Cardinality(taken)
            /\ \A i \in taken :
                 \E k \in DOMAIN deps :
                    /\ deps[k].Name = Fields(lines[i])[2]
                    /\ deps[k].Version = Fields(lines[i])[3]


\* the line ends in a comment that says indirect
CarriesIndirectComment(line) ==
    LET i == Index(line, <<"/","/">>)
    IN  i >= 0 /\ HasPrefix(TrimSpace(Drop(line, i + 2)), <<"i","n","d","i","r","e","c","t">>)

RECURSIVE EscapedPath(_)
\* a module path with each / written %2F
EscapedPath(name) ==
    IF name = <<>> THEN <<>>
    ELSE (IF Head(name) = "/" THEN <<"%","2","F">> ELSE <<Head(name)>>) \o EscapedPath(Tail(name))

GoPURLOf(name, version) == <<"p","k","g",":","g","o","l","a","n","g","/">> \o EscapedPath(name) \o <<"@">> \o version

\* C26: a dependency returned by GoModParser.Parse has Direct = FALSE
\* exactly when its source line carries a trailing // indirect comment; its
\* Type is "go" and its PURL is built from its name and version
C26_IndirectCommentClearsDirect ==
    unit.fn = "GoModParser.Parse" /\ unit.out.err = Nil =>
        LET lines == Scan(unit.args[1].text).lines
            yielding == GoModYielding(lines)
            deps == unit.out.deps
        IN  /\ Len(deps) = Len(yielding)
            /\ \A k \in DOMAIN deps :
                /\ deps[k].Direct = ~CarriesIndirectComment(lines[yielding[k]])
                /\ deps[k].Type = "go"
                /\ deps[k].PURL = GoPURLOf(deps[k].Name, deps[k].Version)

\* a require block with an indirect entry, an entry with another comment
\* and an entry without comment
C26_Witness ==
    /\ unit.fn = "GoModParser.Parse"
    /\ Len(unit.out.deps) = 3
    /\ ~unit.out.deps[1].Direct
    /\ unit.out.deps[2].Direct
    /\ unit.out.deps[3].Direct
    /\ CarriesIndirectComment(Scan(unit.args[1].text).lines[2])
    /\ Contains(Scan(unit.args[1].text).lines[3], <<"/","/"," ","d","i","r","e","c","t">>)


\* C27: two Generate calls on the same Files mapping, whatever order the
\* files are processed in and whatever order an npm manifest's maps are
\* walked in, return the same multiset of Dependencies and the same Stats;
\* the order of the list is all that can differ
C27_OrderChangesOnlyTheList ==
    Finished /\ prev # <<>> =>
        /\ (ret.sbom = <<>>) = (prev[1].sbom = <<>>)
        /\ ret.sbom # <<>> =>
            /\ SeqToBag(Returned.Dependencies) = SeqToBag(prev[1].sbom[1].Dependencies)
            /\ Len(Returned.Dependencies) = Len(prev[1].sbom[1].Dependencies)
            /\ Returned.Stats = prev[1].sbom[1].Stats
            /\ Returned.Format = prev[1].sbom[1].Format

\* two calls on one mapping whose lists differ in order
C27_Witness ==
    /\ SecondCallDone
    /\ ret.sbom # <<>>
    /\ Len(Returned.Dependencies) = 3
    /\ Returned.Dependencies # prev[1].sbom[1].Dependencies
    /\ Returned.Dependencies[1] = prev[1].sbom[1].Dependencies[3]
    /\ Returned.Stats.DirectDependencies = 2


(***************************************************************************)
(* The package as its callers and its tests use it: a Generate call, run   *)
(* step by step, or a direct call of calculateStats or of a builder.       *)
(***************************************************************************)
PackageNext == Next \/ UnitNext

PackageSpec == Init /\ [][PackageNext]_vars

StatsAreCoherent(s) ==
    /\ s.WithLicense + s.WithoutLicense = s.TotalDependencies
    /\ 0 <= s.DirectDependencies
    /\ s.DirectDependencies <= s.TotalDependencies
    /\ s.Ecosystems <= s.TotalDependencies
    /\ (s.Ecosystems = 0) = (s.TotalDependencies = 0)

\* C28: every Stats value returned by calculateStats or by Generate has
\* WithLicense + WithoutLicense = TotalDependencies, DirectDependencies
\* between 0 and TotalDependencies, Ecosystems at most TotalDependencies
\* and zero exactly when TotalDependencies is; the Stats of Generate count
\* Types among go, npm and python, so Ecosystems is at most 3 there
C28_StatsAreCoherent ==
    /\ unit.fn = "calculateStats" => StatsAreCoherent(unit.out)
    /\ Succeeded =>
        /\ StatsAreCoherent(Returned.Stats)
        /\ {d.Type : d \in Range(Returned.Dependencies)} \subseteq {"go", "npm", "python"}
        /\ Returned.Stats.Ecosystems
              = Cardinality({d.Type : d \in Range(Returned.Dependencies)})
        /\ Returned.Stats.Ecosystems <= 3

\* a calculateStats call on three dependencies of three ecosystems, some
\* licensed and some transitive
C28_Witness ==
    /\ unit.fn = "calculateStats"
    /\ unit.out.TotalDependencies = 3
    /\ unit.out.Ecosystems = 3
    /\ unit.out.WithLicense = 2
    /\ unit.out.DirectDependencies = 1


\* the positions of the Direct dependencies of a list, in list order
DirectPositions(deps) ==
    SelectSeq([i \in DOMAIN deps |-> i], LAMBDA i : deps[i].Direct)

SPDXRefs ==
    << <<"S","P","D","X","R","e","f","-","P","a","c","k","a","g","e","-","1">>, <<"S","P","D","X","R","e","f","-","P","a","c","k","a","g","e","-","2">>, <<"S","P","D","X","R","e","f","-","P","a","c","k","a","g","e","-","3">>,
       <<"S","P","D","X","R","e","f","-","P","a","c","k","a","g","e","-","4">>, <<"S","P","D","X","R","e","f","-","P","a","c","k","a","g","e","-","5">> >>

\* C29: in a document built by buildSPDXDocument the package identifiers
\* are pairwise distinct, SPDXRef-Package-root and SPDXRef-Package-1..N;
\* every relationship starts at SPDXRef-DOCUMENT or at the root package and
\* ends at a package of the document; documentDescribes is the root package
\* alone; the i-th DEPENDS_ON ends at the package built from the i-th Direct
\* dependency
C29_SPDXReferencesResolve ==
    unit.fn = "buildSPDXDocument" =>
        LET deps == unit.deps
            pk == unit.out.Packages
            rel == unit.out.Relationships
            ids == {pk[i].SPDXID : i \in DOMAIN pk}
            direct == DirectPositions(deps)
            dependsOn == SelectSeq(rel, LAMBDA r : r.RelationshipType = "DEPENDS_ON")
        IN  /\ \A i, j \in DOMAIN pk : i # j => pk[i].SPDXID # pk[j].SPDXID
            /\ ids = {<<"S","P","D","X","R","e","f","-","P","a","c","k","a","g","e","-","r","o","o","t">>}
                        \cup {SPDXRefs[i] : i \in DOMAIN deps}
            /\ \A k \in DOMAIN rel :
                /\ rel[k].SPDXElementID \in {<<"S","P","D","X","R","e","f","-","D","O","C","U","M","E","N","T">>, <<"S","P","D","X","R","e","f","-","P","a","c","k","a","g","e","-","r","o","o","t">>}
                /\ rel[k].RelatedSPDXElement \in ids
            /\ unit.out.DocumentDescribes = <<<<"S","P","D","X","R","e","f","-","P","a","c","k","a","g","e","-","r","o","o","t">>>>
            /\ Len(dependsOn) = Len(direct)
            /\ \A k \in DOMAIN dependsOn :
                LET target == pk[direct[k] + 1]
                IN  /\ dependsOn[k].RelatedSPDXElement = target.SPDXID
                    /\ target.Name = deps[direct[k]].Name
                    /\ target.VersionInfo = deps[direct[k]].Version

\* a list whose first dependency is transitive, so that the first
\* DEPENDS_ON ends at the second package built from the list
C29_Witness ==
    /\ unit.fn = "buildSPDXDocument"
    /\ Len(unit.deps) = 3
    /\ ~unit.deps[1].Direct /\ unit.deps[2].Direct /\ unit.deps[3].Direct
    /\ unit.deps[2].Name = unit.deps[3].Name
    /\ Len(unit.out.Relationships) = 3
    /\ unit.out.Relationships[2].RelatedSPDXElement = <<"S","P","D","X","R","e","f","-","P","a","c","k","a","g","e","-","2">>


\* C30: when ParseFormat succeeds on the flag's string, the Generate call
\* made with the Format it returned does not end in the unsupported-format
\* error; a Generate call with a Format outside the three canonical values,
\* the empty string and the bare aliases among them, returns no result and
\* an error
C30_ParsedFormatsAreSupported ==
    /\ (caller = "cli" /\ flag.err = Nil /\ pc # "exit") =>
            /\ input.Format = ParseFormat(flag.s).format
            /\ input.Format \in CanonicalFormats
            /\ Finished => (ret.err # "unsupported format" /\ ret.sbom # <<>>)
    /\ (caller = "api" /\ Finished /\ input.Format \notin CanonicalFormats) =>
            /\ ret.sbom = <<>>
            /\ ret.err = "unsupported format"

\* the alias spdx given on the command line ends in an SPDX document
C30_Witness ==
    /\ caller = "cli"
    /\ flag.s = "spdx"
    /\ Succeeded
    /\ Returned.Format = FormatSPDXJSON
    /\ Returned.Dependencies # <<>>

=============================================================================
